---------------------------- MODULE Spec2Model ----------------------------
(***************************************************************************)
(* Fixed-width unsigned integers of github.com/Pilatuz/bigz: Uint128 (two  *)
(* machine words) and Uint256 (two Uint128 halves), with wrap-around       *)
(* arithmetic, full multiplication and Knuth-style long division.          *)
(*                                                                         *)
(* The machine word of the source is uint64.  TLC's integers are 32 bits   *)
(* wide, so the word is modelled W bits wide: every 64 of the source is W, *)
(* every 128 is 2*W, every 256 is 4*W.  All word arithmetic is reduced     *)
(* modulo 2^W exactly where the source's uint64 arithmetic wraps.          *)
(***************************************************************************)
EXTENDS Integers, Sequences, FiniteSets, TLC

\* width of the machine word (uint64 in the source)
W == 2

Base == 2 ^ W
MaxUint64 == Base - 1
Limb == 0 .. MaxUint64

\* the two panics raised with errors.New, and the two run-time panics of math/bits
NoErr == ""
ErrDivideByZero == "integer divide by zero"
ErrOverflow == "integer overflow"
RuntimeDivideError == "runtime error: integer divide by zero"
RuntimeOverflowError == "runtime error: integer overflow"

(***************************************************************************)
(* Native 64-bit operators of Go and the math/bits primitives.             *)
(***************************************************************************)

\* x << n on uint64: a shift count >= the width gives 0
Shl64(x, n) == IF n >= W THEN 0 ELSE (x * (2 ^ n)) % Base

\* x >> n on uint64
Shr64(x, n) == IF n >= W THEN 0 ELSE x \div (2 ^ n)

\* x | y on uint64
RECURSIVE Or64(_, _)
Or64(x, y) ==
    IF x = 0 THEN y
    ELSE IF y = 0 THEN x
    ELSE (IF x % 2 = 1 \/ y % 2 = 1 THEN 1 ELSE 0) + 2 * Or64(x \div 2, y \div 2)

\* x & y on uint64
RECURSIVE And64(_, _)
And64(x, y) ==
    IF x = 0 \/ y = 0 THEN 0
    ELSE (IF x % 2 = 1 /\ y % 2 = 1 THEN 1 ELSE 0) + 2 * And64(x \div 2, y \div 2)

\* x ^ y on uint64
RECURSIVE Xor64(_, _)
Xor64(x, y) ==
    IF x = 0 THEN y
    ELSE IF y = 0 THEN x
    ELSE (IF x % 2 # y % 2 THEN 1 ELSE 0) + 2 * Xor64(x \div 2, y \div 2)

\* bits.Add64: sum = x + y + carry, carryOut
bits_Add64(x, y, carry) ==
    [sum |-> (x + y + carry) % Base, carryOut |-> (x + y + carry) \div Base]

\* bits.Sub64: diff = x - y - borrow, borrowOut
bits_Sub64(x, y, borrow) ==
    [diff |-> (x - y - borrow) % Base,
     borrowOut |-> IF x - y - borrow < 0 THEN 1 ELSE 0]

\* bits.Mul64: (hi, lo) = x * y
bits_Mul64(x, y) == [hi |-> (x * y) \div Base, lo |-> (x * y) % Base]

\* bits.Div64: panics on y = 0 and on y <= hi
bits_Div64(hi, lo, y) ==
    IF y = 0 THEN [quo |-> 0, rem |-> 0, err |-> RuntimeDivideError]
    ELSE IF y <= hi THEN [quo |-> 0, rem |-> 0, err |-> RuntimeOverflowError]
    ELSE [quo |-> (hi * Base + lo) \div y, rem |-> (hi * Base + lo) % y, err |-> NoErr]

\* bits.Len64: number of bits needed to represent x
RECURSIVE bits_Len64(_)
bits_Len64(x) == IF x = 0 THEN 0 ELSE 1 + bits_Len64(x \div 2)

\* bits.TrailingZeros64: the width for x = 0
RECURSIVE bits_TrailingZeros64(_)
bits_TrailingZeros64(x) ==
    IF x = 0 THEN W
    ELSE IF x % 2 = 1 THEN 0
    ELSE 1 + bits_TrailingZeros64(x \div 2)

\* bits.OnesCount64
RECURSIVE bits_OnesCount64(_)
bits_OnesCount64(x) == IF x = 0 THEN 0 ELSE (x % 2) + bits_OnesCount64(x \div 2)

\* ^x on uint64
Not64(x) == MaxUint64 - x

\* bits.LeadingZeros64
bits_LeadingZeros64(x) == W - bits_Len64(x)

\* The byte of the source has 8 bits and its word 8 bytes.  The byte is scaled with
\* the word: it has ByteBits bits, and the word has WordBytes bytes.
ByteBits == 1

ByteBase == 2 ^ ByteBits

WordBytes == W \div ByteBits

\* the digits of x in base b, lowest first, put in reversed order: n digits
RECURSIVE ReverseDigits(_, _, _)
ReverseDigits(x, n, b) ==
    IF n = 0 THEN 0 ELSE (x % b) * (b ^ (n - 1)) + ReverseDigits(x \div b, n - 1, b)

\* bits.Reverse64
bits_Reverse64(x) == ReverseDigits(x, W, 2)

\* bits.ReverseBytes64
bits_ReverseBytes64(x) == ReverseDigits(x, WordBytes, ByteBase)

\* binary.LittleEndian.PutUint64: the bytes of x, lowest first
LittleEndian_PutUint64(x) == [j \in 1 .. WordBytes |-> (x \div (ByteBase ^ (j - 1))) % ByteBase]

\* binary.BigEndian.PutUint64: the bytes of x, highest first
BigEndian_PutUint64(x) ==
    [j \in 1 .. WordBytes |-> (x \div (ByteBase ^ (WordBytes - j))) % ByteBase]

\* the word whose bytes are b, lowest first
RECURSIVE LittleEndian_Bytes(_)
LittleEndian_Bytes(b) ==
    IF b = <<>> THEN 0 ELSE Head(b) + ByteBase * LittleEndian_Bytes(Tail(b))

\* the word whose bytes are b, highest first
RECURSIVE BigEndian_Bytes(_)
BigEndian_Bytes(b) ==
    IF b = <<>> THEN 0
    ELSE BigEndian_Bytes(SubSeq(b, 1, Len(b) - 1)) * ByteBase + b[Len(b)]

\* binary.LittleEndian.Uint64: reads the first word of the slice
LittleEndian_Uint64(b) == LittleEndian_Bytes(SubSeq(b, 1, WordBytes))

\* binary.BigEndian.Uint64: reads the first word of the slice
BigEndian_Uint64(b) == BigEndian_Bytes(SubSeq(b, 1, WordBytes))

\* the slice b[n:]
SliceFrom(b, n) == SubSeq(b, n + 1, Len(b))

\* the slice b[:n]
SliceTo(b, n) == SubSeq(b, 1, n)


(***************************************************************************)
(* package uint128                                                         *)
(***************************************************************************)

\* type Uint128 struct { Lo uint64; Hi uint64 }
Uint128 == [Lo : Limb, Hi : Limb]

\* From64: upper half zero
uint128_From64(v) == [Lo |-> v, Hi |-> 0]

uint128_Zero == uint128_From64(0)

uint128_One == uint128_From64(1)

uint128_Max == [Lo |-> MaxUint64, Hi |-> MaxUint64]

\* Big(): the unbounded integer Hi * 2^64 + Lo
\* A *big.Int is a record: nil or not, and the integer it holds.
big_Nil == [nil |-> TRUE, val |-> 0]

big_NewInt(n) == [nil |-> FALSE, val |-> n]

\* big.Int.BitLen of the absolute value
RECURSIVE big_BitLen(_)
big_BitLen(n) == IF n = 0 THEN 0 ELSE 1 + big_BitLen(n \div 2)

Uint128_Big(u) == u.Hi * Base + u.Lo

\* seeded fault: the overflow test lets a value of one bit too many through
uint128_FromBigX_LateOverflow(i) ==
    IF i.nil THEN [val |-> uint128_Zero, ok |-> TRUE]
    ELSE IF i.val < 0 THEN [val |-> uint128_Zero, ok |-> FALSE]
    ELSE IF big_BitLen(i.val) > 2 * W + 1 THEN [val |-> uint128_Max, ok |-> FALSE]
    ELSE [val |-> [Lo |-> i.val % Base, Hi |-> (i.val \div (2 ^ W)) % Base], ok |-> TRUE]

\* uint128.FromBigX: big.Int.Uint64 gives the low word of the value
uint128_FromBigX(i) ==
    IF i.nil THEN [val |-> uint128_Zero, ok |-> TRUE]
    ELSE IF i.val < 0 THEN [val |-> uint128_Zero, ok |-> FALSE]
    ELSE IF big_BitLen(i.val) > 2 * W THEN [val |-> uint128_Max, ok |-> FALSE]
    ELSE [val |-> [Lo |-> i.val % Base, Hi |-> (i.val \div (2 ^ W)) % Base], ok |-> TRUE]

\* uint128.FromBig: the flag of FromBigX is dropped
uint128_FromBig(i) == uint128_FromBigX(i).val

Uint128_IsZero(u) == (u.Lo = 0) /\ (u.Hi = 0)

\* func (u Uint128) Equals(v Uint128) bool
Uint128_Equals(u, v) == (u.Lo = v.Lo) /\ (u.Hi = v.Hi)

\* seeded fault: the lower words are compared before the upper words
Uint128_Cmp_LoFirst(u, v) ==
    IF u.Lo > v.Lo THEN 1
    ELSE IF u.Lo < v.Lo THEN -1
    ELSE IF u.Hi > v.Hi THEN 1
    ELSE IF u.Hi < v.Hi THEN -1
    ELSE 0

\* func (u Uint128) Cmp(v Uint128) int
Uint128_Cmp(u, v) ==
    IF u.Hi > v.Hi THEN 1
    ELSE IF u.Hi < v.Hi THEN -1
    ELSE IF u.Lo > v.Lo THEN 1
    ELSE IF u.Lo < v.Lo THEN -1
    ELSE 0

\* func (u Uint128) Cmp64(v uint64) int
Uint128_Cmp64(u, v) ==
    IF u.Hi # 0 THEN 1
    ELSE IF u.Lo > v THEN 1
    ELSE IF u.Lo < v THEN -1
    ELSE 0

Uint128_Or(u, v) == [Lo |-> Or64(u.Lo, v.Lo), Hi |-> Or64(u.Hi, v.Hi)]

\* Uint128.Or64: the upper half is kept
Uint128_Or64(u, v) == [Lo |-> Or64(u.Lo, v), Hi |-> u.Hi]

\* Uint128.And
Uint128_And(u, v) == [Lo |-> And64(u.Lo, v.Lo), Hi |-> And64(u.Hi, v.Hi)]

\* seeded fault: And64 keeps the upper half of the receiver
Uint128_And64_KeepsHi(u, v) == [Lo |-> And64(u.Lo, v), Hi |-> u.Hi]

\* Uint128.And64: the upper half is cleared
Uint128_And64(u, v) == [Lo |-> And64(u.Lo, v), Hi |-> 0]

\* Uint128.AndNot: u &^ v, written u & ^v in the source
Uint128_AndNot(u, v) ==
    [Lo |-> And64(u.Lo, Not64(v.Lo)), Hi |-> And64(u.Hi, Not64(v.Hi))]

\* Uint128.AndNot64: the upper half is kept
Uint128_AndNot64(u, v) == [Lo |-> And64(u.Lo, Not64(v)), Hi |-> u.Hi]

\* Uint128.Xor
Uint128_Xor(u, v) == [Lo |-> Xor64(u.Lo, v.Lo), Hi |-> Xor64(u.Hi, v.Hi)]

\* Uint128.Xor64: the upper half is kept
Uint128_Xor64(u, v) == [Lo |-> Xor64(u.Lo, v), Hi |-> u.Hi]

\* seeded fault: the carry out of the lower half is not fed into the upper half
uint128_Add_CarryLost(x, y, carry) ==
    LET l == bits_Add64(x.Lo, y.Lo, carry)
        h == bits_Add64(x.Hi, y.Hi, 0)
    IN  [sum |-> [Lo |-> l.sum, Hi |-> h.sum], carryOut |-> h.carryOut]

\* func Add(x, y Uint128, carry uint64) (sum Uint128, carryOut uint64)
uint128_Add(x, y, carry) ==
    LET l == bits_Add64(x.Lo, y.Lo, carry)
        h == bits_Add64(x.Hi, y.Hi, l.carryOut)
    IN  [sum |-> [Lo |-> l.sum, Hi |-> h.sum], carryOut |-> h.carryOut]

\* seeded fault: an addition that overflows panics instead of wrapping around
Uint128_Add_PanicOnOverflow(u, v) ==
    IF uint128_Add(u, v, 0).carryOut # 0 THEN [err |-> ErrOverflow]
    ELSE uint128_Add(u, v, 0).sum

\* func (u Uint128) Add(v Uint128) Uint128
Uint128_Add(u, v) == uint128_Add(u, v, 0).sum

\* func (u Uint128) Add64(v uint64) Uint128
Uint128_Add64(u, v) ==
    LET l == bits_Add64(u.Lo, v, 0)
    IN  [Lo |-> l.sum, Hi |-> (u.Hi + l.carryOut) % Base]

\* seeded fault: the borrow out of the lower half is not fed into the upper half
uint128_Sub_BorrowLost(x, y, borrow) ==
    LET l == bits_Sub64(x.Lo, y.Lo, borrow)
        h == bits_Sub64(x.Hi, y.Hi, 0)
    IN  [diff |-> [Lo |-> l.diff, Hi |-> h.diff], borrowOut |-> h.borrowOut]

\* func Sub(x, y Uint128, borrow uint64) (diff Uint128, borrowOut uint64)
uint128_Sub(x, y, borrow) ==
    LET l == bits_Sub64(x.Lo, y.Lo, borrow)
        h == bits_Sub64(x.Hi, y.Hi, l.borrowOut)
    IN  [diff |-> [Lo |-> l.diff, Hi |-> h.diff], borrowOut |-> h.borrowOut]

\* func (u Uint128) Sub(v Uint128) Uint128
Uint128_Sub(u, v) == uint128_Sub(u, v, 0).diff

\* func (u Uint128) Sub64(v uint64) Uint128
Uint128_Sub64(u, v) ==
    LET l == bits_Sub64(u.Lo, v, 0)
    IN  [Lo |-> l.diff, Hi |-> (u.Hi - l.borrowOut) % Base]

\* seeded fault: the second carry c1 is dropped from the top word
uint128_Mul_C1Lost(x, y) ==
    LET p0 == bits_Mul64(x.Lo, y.Lo)
        p1 == bits_Mul64(x.Hi, y.Hi)
        t01 == bits_Mul64(x.Lo, y.Hi)
        t23 == bits_Mul64(x.Hi, y.Lo)
        a0 == bits_Add64(p0.hi, t01.lo, 0)
        a1 == bits_Add64(a0.sum, t23.lo, 0)
        a2 == bits_Add64(p1.lo, t01.hi, a0.carryOut)
        a3 == bits_Add64(a2.sum, t23.hi, a1.carryOut)
    IN  [hi |-> [Lo |-> a3.sum, Hi |-> (p1.hi + a2.carryOut) % Base],
         lo |-> [Lo |-> p0.lo, Hi |-> a1.sum]]

\* func Mul(x, y Uint128) (hi, lo Uint128): the full 256-bit product
uint128_Mul(x, y) ==
    LET p0 == bits_Mul64(x.Lo, y.Lo)      \* lo.Hi, lo.Lo
        p1 == bits_Mul64(x.Hi, y.Hi)      \* hi.Hi, hi.Lo
        t01 == bits_Mul64(x.Lo, y.Hi)     \* t0, t1
        t23 == bits_Mul64(x.Hi, y.Lo)     \* t2, t3
        a0 == bits_Add64(p0.hi, t01.lo, 0)             \* lo.Hi, c0
        a1 == bits_Add64(a0.sum, t23.lo, 0)            \* lo.Hi, c1
        a2 == bits_Add64(p1.lo, t01.hi, a0.carryOut)   \* hi.Lo, c0
        a3 == bits_Add64(a2.sum, t23.hi, a1.carryOut)  \* hi.Lo, c1
    IN  [hi |-> [Lo |-> a3.sum,
                 Hi |-> (p1.hi + a2.carryOut + a3.carryOut) % Base],
         lo |-> [Lo |-> p0.lo, Hi |-> a1.sum]]

\* seeded fault: one cross term is left out of the upper word
Uint128_Mul_CrossLost(u, v) ==
    LET p == bits_Mul64(u.Lo, v.Lo)
    IN  [Lo |-> p.lo, Hi |-> (p.hi + u.Hi * v.Lo) % Base]

\* func (u Uint128) Mul(v Uint128) Uint128: the product modulo 2^128
Uint128_Mul(u, v) ==
    LET p == bits_Mul64(u.Lo, v.Lo)
    IN  [Lo |-> p.lo, Hi |-> (p.hi + u.Hi * v.Lo + u.Lo * v.Hi) % Base]

\* func (u Uint128) Mul64(v uint64) Uint128
Uint128_Mul64(u, v) ==
    LET p == bits_Mul64(u.Lo, v)
    IN  [Lo |-> p.lo, Hi |-> (p.hi + u.Hi * v) % Base]

\* seeded fault: the bits leaving the lower word are not carried into the upper word
Uint128_Lsh_CarryLost(u, n) ==
    IF n > W
    THEN [Lo |-> 0, Hi |-> Shl64(u.Lo, n - W)]
    ELSE [Lo |-> Shl64(u.Lo, n), Hi |-> Shl64(u.Hi, n)]

\* func (u Uint128) Lsh(n uint) Uint128
Uint128_Lsh(u, n) ==
    IF n > W
    THEN [Lo |-> 0, Hi |-> Shl64(u.Lo, n - W)]
    ELSE [Lo |-> Shl64(u.Lo, n),
          Hi |-> Or64(Shl64(u.Hi, n), Shr64(u.Lo, W - n))]

\* func (u Uint128) Rsh(n uint) Uint128
Uint128_Rsh(u, n) ==
    IF n > W
    THEN [Lo |-> Shr64(u.Hi, n - W), Hi |-> 0]
    ELSE [Lo |-> Or64(Shr64(u.Lo, n), Shl64(u.Hi, W - n)),
          Hi |-> Shr64(u.Hi, n)]

\* func (u Uint128) Not() Uint128
Uint128_Not(u) == [Lo |-> Not64(u.Lo), Hi |-> Not64(u.Hi)]

\* func (u Uint128) BitLen() int
Uint128_BitLen(u) ==
    IF u.Hi # 0 THEN W + bits_Len64(u.Hi)
    ELSE bits_Len64(u.Lo)

\* seeded fault: the width of the upper word is not added when the upper word is zero
Uint128_LeadingZeros_NoOffset(u) ==
    IF u.Hi # 0 THEN bits_LeadingZeros64(u.Hi)
    ELSE bits_LeadingZeros64(u.Lo)

\* func (u Uint128) LeadingZeros() int
Uint128_LeadingZeros(u) ==
    IF u.Hi # 0 THEN bits_LeadingZeros64(u.Hi)
    ELSE W + bits_LeadingZeros64(u.Lo)

\* seeded fault: the upper word is examined first
Uint128_TrailingZeros_HiFirst(u) ==
    IF u.Hi # 0 THEN bits_TrailingZeros64(u.Hi)
    ELSE W + bits_TrailingZeros64(u.Lo)

\* func (u Uint128) TrailingZeros() int
Uint128_TrailingZeros(u) ==
    IF u.Lo # 0 THEN bits_TrailingZeros64(u.Lo)
    ELSE W + bits_TrailingZeros64(u.Hi)

\* x<<n | y>>(64-n), for 0 < n < 64: x moved up by n bits, filled from the top of y
RotWord(x, y, n) == Or64(Shl64(x, n), Shr64(y, W - n))

\* seeded fault: a rotation by exactly one word leaves the value as it is
Uint128_RotateLeft_NoSwap(u, k) ==
    LET n == k % (2 * W)
        m == n - W
    IN  IF n < W
        THEN IF n = 0 THEN u
             ELSE [Lo |-> RotWord(u.Lo, u.Hi, n), Hi |-> RotWord(u.Hi, u.Lo, n)]
        ELSE IF m = 0 THEN u
        ELSE [Lo |-> RotWord(u.Hi, u.Lo, m), Hi |-> RotWord(u.Lo, u.Hi, m)]

\* func (u Uint128) RotateLeft(k int) Uint128
\*   n := uint(k) & 127: uint(k) is k modulo 2^64 and the mask keeps the low
\*   7 bits, so n is k modulo 128 (never negative), also for a negative k
Uint128_RotateLeft(u, k) ==
    LET n == k % (2 * W)
        m == n - W
    IN  IF n < W
        THEN IF n = 0 THEN u
             ELSE [Lo |-> RotWord(u.Lo, u.Hi, n), Hi |-> RotWord(u.Hi, u.Lo, n)]
        ELSE IF m = 0 THEN [Lo |-> u.Hi, Hi |-> u.Lo]
        ELSE [Lo |-> RotWord(u.Hi, u.Lo, m), Hi |-> RotWord(u.Lo, u.Hi, m)]

\* seeded fault: the count is not negated
Uint128_RotateRight_SameWay(u, k) == Uint128_RotateLeft(u, k)

\* func (u Uint128) RotateRight(k int) Uint128
Uint128_RotateRight(u, k) == Uint128_RotateLeft(u, -k)

\* func (u Uint128) OnesCount() int
Uint128_OnesCount(u) == bits_OnesCount64(u.Lo) + bits_OnesCount64(u.Hi)

\* seeded fault: the bits of each word are reversed but the words stay in place
Uint128_Reverse_NoSwap(u) == [Lo |-> bits_Reverse64(u.Lo), Hi |-> bits_Reverse64(u.Hi)]

\* func (u Uint128) Reverse() Uint128
Uint128_Reverse(u) == [Lo |-> bits_Reverse64(u.Hi), Hi |-> bits_Reverse64(u.Lo)]

\* func (u Uint128) ReverseBytes() Uint128
Uint128_ReverseBytes(u) ==
    [Lo |-> bits_ReverseBytes64(u.Hi), Hi |-> bits_ReverseBytes64(u.Lo)]

\* uint128.StoreLittleEndian: b[:8] holds u.Lo, b[8:] holds u.Hi
uint128_StoreLittleEndian(u) == LittleEndian_PutUint64(u.Lo) \o LittleEndian_PutUint64(u.Hi)

\* uint128.StoreBigEndian: b[:8] holds u.Hi, b[8:] holds u.Lo
uint128_StoreBigEndian(u) == BigEndian_PutUint64(u.Hi) \o BigEndian_PutUint64(u.Lo)

\* seeded fault: the halves are read from the wrong ends of the buffer
uint128_LoadLittleEndian_HiFirst(b) ==
    [Lo |-> LittleEndian_Uint64(SliceFrom(b, WordBytes)),
     Hi |-> LittleEndian_Uint64(SliceTo(b, WordBytes))]

\* uint128.LoadLittleEndian
uint128_LoadLittleEndian(b) ==
    [Lo |-> LittleEndian_Uint64(SliceTo(b, WordBytes)),
     Hi |-> LittleEndian_Uint64(SliceFrom(b, WordBytes))]

\* uint128.LoadBigEndian
uint128_LoadBigEndian(b) ==
    [Lo |-> BigEndian_Uint64(SliceFrom(b, WordBytes)),
     Hi |-> BigEndian_Uint64(SliceTo(b, WordBytes))]

\* a division that panicked: no quotient or remainder is returned
Panic128(e) == [quo |-> uint128_Zero, rem |-> uint128_Zero, err |-> e]

\* QuoRem64, second branch, after hi, r := bits.Div64(0, u.Hi, v):
\*   lo, r := bits.Div64(r, u.Lo, v); return Uint128{Lo: lo, Hi: hi}, r
Uint128_QuoRem64_Lo(dh, dl) ==
    IF dl.err # NoErr THEN [quo |-> uint128_Zero, rem |-> 0, err |-> dl.err]
    ELSE [quo |-> [Lo |-> dl.quo, Hi |-> dh.quo], rem |-> dl.rem, err |-> NoErr]

\* QuoRem64, second branch: hi, r := bits.Div64(0, u.Hi, v), then the lower word
Uint128_QuoRem64_Hi(u, v, dh) ==
    IF dh.err # NoErr THEN [quo |-> uint128_Zero, rem |-> 0, err |-> dh.err]
    ELSE Uint128_QuoRem64_Lo(dh, bits_Div64(dh.rem, u.Lo, v))

\* QuoRem64, first branch: lo, r := bits.Div64(u.Hi, u.Lo, v)
Uint128_QuoRem64_Fast(d) ==
    IF d.err # NoErr THEN [quo |-> uint128_Zero, rem |-> 0, err |-> d.err]
    ELSE [quo |-> [Lo |-> d.quo, Hi |-> 0], rem |-> d.rem, err |-> NoErr]

\* seeded fault: a zero divisor is answered with the largest value instead of a panic
Uint128_QuoRem64_ZeroGuard(u, v) ==
    IF v = 0 THEN [quo |-> uint128_Max, rem |-> 0, err |-> NoErr]
    ELSE IF u.Hi < v
    THEN Uint128_QuoRem64_Fast(bits_Div64(u.Hi, u.Lo, v))
    ELSE Uint128_QuoRem64_Hi(u, v, bits_Div64(0, u.Hi, v))

\* func (u Uint128) QuoRem64(v uint64) (Uint128, uint64)
Uint128_QuoRem64(u, v) ==
    IF u.Hi < v
    THEN Uint128_QuoRem64_Fast(bits_Div64(u.Hi, u.Lo, v))
    ELSE Uint128_QuoRem64_Hi(u, v, bits_Div64(0, u.Hi, v))

\* The source prints in base 10 and peels chunks of 10^19, the largest power of 10
\* that fits in its word.  The base is scaled with the word: the digits are those of
\* base Radix, and a chunk is the largest power of Radix that fits in a word.
Radix == 2

\* 19 in the source: the number of digits of a chunk
ChunkDigits == CHOOSE d \in 1 .. W : Radix ^ d <= MaxUint64 /\ Radix ^ (d + 1) > MaxUint64

\* 1e19 in the source
Chunk == Radix ^ ChunkDigits

\* the number of digits of n > 0
RECURSIVE DigitCount(_)
DigitCount(n) == IF n < Radix THEN 1 ELSE 1 + DigitCount(n \div Radix)

\* 40 in the source: one more than the digits of the largest 128-bit value
BufLen128 == DigitCount(Uint128_Big(uint128_Max)) + 1

ErrIndex == "runtime error: index out of range"

\* strconv.FormatUint(x, 10): the digits of x, highest first; a string is the
\* sequence of its digits
RECURSIVE strconv_FormatUint(_)
strconv_FormatUint(x) ==
    IF x < Radix THEN <<x>> ELSE strconv_FormatUint(x \div Radix) \o <<(x % Radix)>>

\* for ; r != 0; r /= 10 { n++; buf[i-n] += byte(r % 10) }
RECURSIVE String_Digits(_, _, _, _)
String_Digits(buf, i, r, n) ==
    IF r = 0 THEN [buf |-> buf, n |-> n, err |-> NoErr]
    ELSE IF i - (n + 1) < 0 \/ i - (n + 1) >= Len(buf)
    THEN [buf |-> buf, n |-> n + 1, err |-> ErrIndex]
    ELSE String_Digits([buf EXCEPT ![i - (n + 1) + 1] = @ + (r % Radix)],
                       i, r \div Radix, n + 1)

\* String, after the digits of one chunk are written:
\*   if q.IsZero() { return string(buf[i-n:]) }
String_Return(buf, i, n) ==
    IF i - n < 0 \/ i - n > Len(buf) THEN [str |-> <<>>, err |-> ErrIndex]
    ELSE [str |-> SubSeq(buf, i - n + 1, Len(buf)), err |-> NoErr]

\* seeded fault: the index moves by the digits written, so a short chunk is not padded
RECURSIVE Uint128_String_Loop_NoPad(_, _, _)
Uint128_String_Loop_NoPad(u, buf, i) ==
    LET qr == Uint128_QuoRem64(u, Chunk)
        d  == String_Digits(buf, i, qr.rem, 0)
    IN  IF qr.err # NoErr \/ d.err # NoErr
        THEN [str |-> <<>>, err |-> IF qr.err # NoErr THEN qr.err ELSE d.err]
        ELSE IF Uint128_IsZero(qr.quo) THEN String_Return(d.buf, i, d.n)
        ELSE Uint128_String_Loop_NoPad(qr.quo, d.buf, i - d.n)

\* for i := len(buf); ; i -= 19 { q, r := u.QuoRem64(1e19); ...; u = q }
RECURSIVE Uint128_String_Loop(_, _, _)
Uint128_String_Loop(u, buf, i) ==
    LET qr == Uint128_QuoRem64(u, Chunk)
        d  == String_Digits(buf, i, qr.rem, 0)
    IN  IF qr.err # NoErr \/ d.err # NoErr
        THEN [str |-> <<>>, err |-> IF qr.err # NoErr THEN qr.err ELSE d.err]
        ELSE IF Uint128_IsZero(qr.quo) THEN String_Return(d.buf, i, d.n)
        ELSE Uint128_String_Loop(qr.quo, d.buf, i - ChunkDigits)

\* func (u Uint128) String() string
Uint128_String(u) ==
    IF u.Hi = 0
    THEN IF u.Lo = 0 THEN [str |-> <<0>>, err |-> NoErr]
         ELSE [str |-> strconv_FormatUint(u.Lo), err |-> NoErr]
    ELSE Uint128_String_Loop(u, [j \in 1 .. BufLen128 |-> 0], BufLen128)

\* seeded fault: the remainder is never compared with the divisor
Uint128_QuoRem_Adjust_Never(v, q, r) ==
    [quo |-> q, rem |-> r, err |-> NoErr, tq |-> q, r0 |-> r]

\* QuoRem, general path, from q, r := From64(tq), u.Sub(v.Mul64(tq)):
\*   if r.Cmp(v) >= 0 { q = q.Add64(1); r = r.Sub(v) }; return q, r
\* (tq and r0 record the trial quotient and the remainder before the correction)
Uint128_QuoRem_Adjust(v, q, r) ==
    IF Uint128_Cmp(r, v) >= 0
    THEN [quo |-> Uint128_Add64(q, 1), rem |-> Uint128_Sub(r, v), err |-> NoErr,
          tq |-> q, r0 |-> r]
    ELSE [quo |-> q, rem |-> r, err |-> NoErr, tq |-> q, r0 |-> r]

\* QuoRem, general path, with the trial quotient tq after "if tq != 0 { tq-- }"
Uint128_QuoRem_Trial(u, v, tq) ==
    Uint128_QuoRem_Adjust(v, uint128_From64(tq), Uint128_Sub(u, Uint128_Mul64(v, tq)))

\* seeded fault: the trial quotient is not decremented
Uint128_QuoRem_Dec_Never(u, v, t) == Uint128_QuoRem_Trial(u, v, t)

\* QuoRem, general path, with t the trial quotient after tq >>= 63 - n
Uint128_QuoRem_Dec(u, v, t) == Uint128_QuoRem_Trial(u, v, IF t # 0 THEN t - 1 ELSE t)

\* QuoRem, general path, after tq, _ := bits.Div64(u1.Hi, u1.Lo, v1.Hi)
Uint128_QuoRem_Shift(u, v, n, d) ==
    IF d.err # NoErr THEN Panic128(d.err)
    ELSE Uint128_QuoRem_Dec(u, v, Shr64(d.quo, (W - 1) - n))

\* QuoRem, general path, after u1, v1 := u.Rsh(1), v.Lsh(n)
Uint128_QuoRem_Div(u, v, n, u1, v1) ==
    Uint128_QuoRem_Shift(u, v, n, bits_Div64(u1.Hi, u1.Lo, v1.Hi))

\* QuoRem, general path, after n := uint(bits.LeadingZeros64(v.Hi))
Uint128_QuoRem_Norm(u, v, n) ==
    Uint128_QuoRem_Div(u, v, n, Uint128_Rsh(u, 1), Uint128_Lsh(v, n))

\* QuoRem, fast path: q, r := u.QuoRem64(v.Lo); return q, From64(r)
Uint128_QuoRem_Fast(d) == [quo |-> d.quo, rem |-> uint128_From64(d.rem), err |-> d.err]

\* func (u Uint128) QuoRem(v Uint128) (Uint128, Uint128)
Uint128_QuoRem(u, v) ==
    IF v.Hi = 0
    THEN Uint128_QuoRem_Fast(Uint128_QuoRem64(u, v.Lo))
    ELSE Uint128_QuoRem_Norm(u, v, bits_LeadingZeros64(v.Hi))

\* q, _ := u.QuoRem...(v); return q    (a panic of the call is the caller's)
Quotient(qr) == [val |-> qr.quo, err |-> qr.err]

\* _, r := u.QuoRem...(v); return r
Remainder(qr) == [val |-> qr.rem, err |-> qr.err]

\* func (u Uint128) Div(v Uint128) Uint128
Uint128_Div(u, v) == Quotient(Uint128_QuoRem(u, v))

\* func (u Uint128) Div64(v uint64) Uint128
Uint128_Div64(u, v) == Quotient(Uint128_QuoRem64(u, v))

\* func (u Uint128) Mod(v Uint128) Uint128
Uint128_Mod(u, v) == Remainder(Uint128_QuoRem(u, v))

\* func (u Uint128) Mod64(v uint64) uint64
Uint128_Mod64(u, v) == Remainder(Uint128_QuoRem64(u, v))

\* seeded fault: the loop has no break, it runs until its condition is false
RECURSIVE uint128_DivLoop_NoBreak(_, _, _, _, _)
uint128_DivLoop_NoBreak(q, r, y, un, n) ==
    IF q.Hi # 0 \/ Uint128_Cmp(Uint128_Mul64(q, y.Lo), [Hi |-> r.Lo, Lo |-> un]) > 0
    THEN uint128_DivLoop_NoBreak(Uint128_Sub64(q, 1), Uint128_Add64(r, y.Hi), y, un, n + 1)
    ELSE [q |-> q, r |-> r, n |-> n]

\* seeded fault: the trial digit is corrected at most once
uint128_DivLoop_Once(q, r, y, un, n) ==
    IF q.Hi # 0 \/ Uint128_Cmp(Uint128_Mul64(q, y.Lo), [Hi |-> r.Lo, Lo |-> un]) > 0
    THEN [q |-> Uint128_Sub64(q, 1), r |-> Uint128_Add64(r, y.Hi), n |-> n + 1]
    ELSE [q |-> q, r |-> r, n |-> n]

\* One correction loop of Div, entered with the trial digit q and its
\* remainder r (both Uint128), the normalized divisor y and the next
\* dividend word un; n counts the executions of the loop body.
\*   for q.Hi != 0 || q.Mul64(y.Lo).Cmp(Uint128{Hi: r.Lo, Lo: un}) > 0 {
\*       q = q.Sub64(1); r = r.Add64(y.Hi); if r.Hi != 0 { break } }
RECURSIVE uint128_DivLoop(_, _, _, _, _)
uint128_DivLoop(q, r, y, un, n) ==
    IF q.Hi # 0 \/ Uint128_Cmp(Uint128_Mul64(q, y.Lo), [Hi |-> r.Lo, Lo |-> un]) > 0
    THEN IF Uint128_Add64(r, y.Hi).Hi # 0
         THEN [q |-> Uint128_Sub64(q, 1), r |-> Uint128_Add64(r, y.Hi), n |-> n + 1]
         ELSE uint128_DivLoop(Uint128_Sub64(q, 1), Uint128_Add64(r, y.Hi), y, un, n + 1)
    ELSE [q |-> q, r |-> r, n |-> n]

\* Div: the return statement, with both digits corrected (l1, l0: the loops' results)
uint128_Div_Return(y, un10, s, un21, l1, l0) ==
    [quo |-> [Hi |-> l1.q.Lo, Lo |-> l0.q.Lo],
     rem |-> Uint128_Rsh(Uint128_Sub([Hi |-> un21.Lo, Lo |-> un10.Lo],
                                     Uint128_Mul(l0.q, y)), s),
     err |-> NoErr, n1 |-> l1.n, n0 |-> l0.n, s |-> s]

\* Div: after q0, rhat := un21.QuoRem64(y.Hi), the loop for q0
uint128_Div_Q0(y, un10, s, un21, l1, d0) ==
    IF d0.err # NoErr THEN Panic128(d0.err)
    ELSE uint128_Div_Return(y, un10, s, un21, l1,
             uint128_DivLoop(d0.quo, uint128_From64(d0.rem), y, un10.Lo, 0))

\* Div: after un21 := Uint128{Hi: un32.Lo, Lo: un10.Hi}.Sub(q1.Mul(y))
uint128_Div_Un21(y, un10, s, un21, l1) ==
    uint128_Div_Q0(y, un10, s, un21, l1, Uint128_QuoRem64(un21, y.Hi))

\* Div: with q1 corrected (l1: the loop's result)
uint128_Div_Q1Done(y, un32, un10, s, l1) ==
    uint128_Div_Un21(y, un10, s,
        Uint128_Sub([Hi |-> un32.Lo, Lo |-> un10.Hi], Uint128_Mul(l1.q, y)), l1)

\* Div: after q1, rhat := un32.QuoRem64(y.Hi), the loop for q1
uint128_Div_Q1(y, un32, un10, s, d1) ==
    IF d1.err # NoErr THEN Panic128(d1.err)
    ELSE uint128_Div_Q1Done(y, un32, un10, s,
             uint128_DivLoop(d1.quo, uint128_From64(d1.rem), y, un10.Hi, 0))

\* Div: after y = y.Lsh(s), un32 := hi.Lsh(s).Or(lo.Rsh(128 - s)), un10 := lo.Lsh(s)
uint128_Div_Norm(y, un32, un10, s) ==
    uint128_Div_Q1(y, un32, un10, s, Uint128_QuoRem64(un32, y.Hi))

\* Div: after s := uint(y.LeadingZeros())
uint128_Div_Shift(hi, lo, y, s) ==
    uint128_Div_Norm(Uint128_Lsh(y, s),
                     Uint128_Or(Uint128_Lsh(hi, s), Uint128_Rsh(lo, 2 * W - s)),
                     Uint128_Lsh(lo, s), s)

\* seeded fault: the divisor equal to hi is let through (y < hi tested, not y <= hi)
uint128_Div_OffByOne(hi, lo, y) ==
    IF Uint128_IsZero(y) THEN Panic128(ErrDivideByZero)
    ELSE IF Uint128_Cmp(y, hi) < 0 THEN Panic128(ErrOverflow)
    ELSE uint128_Div_Shift(hi, lo, y, Uint128_LeadingZeros(y))

\* seeded fault: the overflow check comes first, so a zero divisor is reported as overflow
uint128_Div_OverflowFirst(hi, lo, y) ==
    IF Uint128_Cmp(y, hi) <= 0 THEN Panic128(ErrOverflow)
    ELSE IF Uint128_IsZero(y) THEN Panic128(ErrDivideByZero)
    ELSE uint128_Div_Shift(hi, lo, y, Uint128_LeadingZeros(y))

\* func Div(hi, lo, y Uint128) (quo, rem Uint128)
uint128_Div(hi, lo, y) ==
    IF Uint128_IsZero(y) THEN Panic128(ErrDivideByZero)
    ELSE IF Uint128_Cmp(y, hi) <= 0 THEN Panic128(ErrOverflow)
    ELSE uint128_Div_Shift(hi, lo, y, Uint128_LeadingZeros(y))

(***************************************************************************)
(* package uint256                                                         *)
(***************************************************************************)

\* type Uint256 struct { Lo Uint128; Hi Uint128 }
Uint256 == [Lo : Uint128, Hi : Uint128]

\* From128: upper half zero
uint256_From128(v) == [Lo |-> v, Hi |-> uint128_Zero]

uint256_From64(v) == uint256_From128(uint128_From64(v))

uint256_Zero == uint256_From64(0)

uint256_One == uint256_From64(1)

uint256_Max == [Lo |-> uint128_Max, Hi |-> uint128_Max]

\* Big(): the unbounded integer ((Hi.Hi * 2^64 + Hi.Lo) * 2^64 + Lo.Hi) * 2^64 + Lo.Lo
Uint256_Big(u) == ((u.Hi.Hi * Base + u.Hi.Lo) * Base + u.Lo.Hi) * Base + u.Lo.Lo

\* uint256.FromBigX: four words, each the low word of the shifted value
uint256_FromBigX(i) ==
    IF i.nil THEN [val |-> uint256_Zero, ok |-> TRUE]
    ELSE IF i.val < 0 THEN [val |-> uint256_Zero, ok |-> FALSE]
    ELSE IF big_BitLen(i.val) > 4 * W THEN [val |-> uint256_Max, ok |-> FALSE]
    ELSE [val |-> [Lo |-> [Lo |-> i.val % Base,
                           Hi |-> (i.val \div (2 ^ W)) % Base],
                   Hi |-> [Lo |-> (i.val \div (2 ^ (2 * W))) % Base,
                           Hi |-> (i.val \div (2 ^ (3 * W))) % Base]],
          ok |-> TRUE]

\* uint256.FromBig: the flag of FromBigX is dropped
uint256_FromBig(i) == uint256_FromBigX(i).val

Uint256_IsZero(u) == Uint128_IsZero(u.Lo) /\ Uint128_IsZero(u.Hi)

Uint256_Cmp(u, v) ==
    LET h == Uint128_Cmp(u.Hi, v.Hi)
    IN  IF h # 0 THEN h ELSE Uint128_Cmp(u.Lo, v.Lo)

\* func (u Uint256) Equals(v Uint256) bool
Uint256_Equals(u, v) == Uint128_Equals(u.Lo, v.Lo) /\ Uint128_Equals(u.Hi, v.Hi)

\* func (u Uint256) Cmp128(v Uint128) int
Uint256_Cmp128(u, v) ==
    IF ~Uint128_IsZero(u.Hi) THEN 1
    ELSE Uint128_Cmp(u.Lo, v)

Uint256_Or(u, v) == [Lo |-> Uint128_Or(u.Lo, v.Lo), Hi |-> Uint128_Or(u.Hi, v.Hi)]

\* Uint256.Or128: the upper half is kept
Uint256_Or128(u, v) == [Lo |-> Uint128_Or(u.Lo, v), Hi |-> u.Hi]

\* Uint256.And
Uint256_And(u, v) == [Lo |-> Uint128_And(u.Lo, v.Lo), Hi |-> Uint128_And(u.Hi, v.Hi)]

\* Uint256.And128: the upper half is left at its zero value
Uint256_And128(u, v) == [Lo |-> Uint128_And(u.Lo, v), Hi |-> uint128_Zero]

\* Uint256.AndNot
Uint256_AndNot(u, v) ==
    [Lo |-> Uint128_AndNot(u.Lo, v.Lo), Hi |-> Uint128_AndNot(u.Hi, v.Hi)]

\* Uint256.AndNot128: the upper half is kept
Uint256_AndNot128(u, v) == [Lo |-> Uint128_AndNot(u.Lo, v), Hi |-> u.Hi]

\* Uint256.Xor
Uint256_Xor(u, v) == [Lo |-> Uint128_Xor(u.Lo, v.Lo), Hi |-> Uint128_Xor(u.Hi, v.Hi)]

\* Uint256.Xor128: the upper half is kept
Uint256_Xor128(u, v) == [Lo |-> Uint128_Xor(u.Lo, v), Hi |-> u.Hi]

\* seeded fault: the carry that comes in is not added
uint256_Add_CarryInLost(x, y, carry) ==
    LET l == uint128_Add(x.Lo, y.Lo, 0)
        h == uint128_Add(x.Hi, y.Hi, l.carryOut)
    IN  [sum |-> [Lo |-> l.sum, Hi |-> h.sum], carryOut |-> h.carryOut]

\* func Add(x, y Uint256, carry uint64) (sum Uint256, carryOut uint64)
uint256_Add(x, y, carry) ==
    LET l == uint128_Add(x.Lo, y.Lo, carry)
        h == uint128_Add(x.Hi, y.Hi, l.carryOut)
    IN  [sum |-> [Lo |-> l.sum, Hi |-> h.sum], carryOut |-> h.carryOut]

\* func (u Uint256) Add(v Uint256) Uint256
Uint256_Add(u, v) == uint256_Add(u, v, 0).sum

\* func (u Uint256) Add128(v Uint128) Uint256
Uint256_Add128(u, v) ==
    LET l == uint128_Add(u.Lo, v, 0)
    IN  [Lo |-> l.sum, Hi |-> Uint128_Add64(u.Hi, l.carryOut)]

\* func Sub(x, y Uint256, borrow uint64) (diff Uint256, borrowOut uint64)
uint256_Sub(x, y, borrow) ==
    LET l == uint128_Sub(x.Lo, y.Lo, borrow)
        h == uint128_Sub(x.Hi, y.Hi, l.borrowOut)
    IN  [diff |-> [Lo |-> l.diff, Hi |-> h.diff], borrowOut |-> h.borrowOut]

\* func (u Uint256) Sub(v Uint256) Uint256
Uint256_Sub(u, v) == uint256_Sub(u, v, 0).diff

\* func (u Uint256) Sub128(v Uint128) Uint256
Uint256_Sub128(u, v) ==
    LET l == uint128_Sub(u.Lo, v, 0)
    IN  [Lo |-> l.diff, Hi |-> Uint128_Sub64(u.Hi, l.borrowOut)]

\* func Mul(x, y Uint256) (hi, lo Uint256): the full 512-bit product
uint256_Mul(x, y) ==
    LET p0 == uint128_Mul(x.Lo, y.Lo)      \* lo.Hi, lo.Lo
        p1 == uint128_Mul(x.Hi, y.Hi)      \* hi.Hi, hi.Lo
        t01 == uint128_Mul(x.Lo, y.Hi)     \* t0, t1
        t23 == uint128_Mul(x.Hi, y.Lo)     \* t2, t3
        a0 == uint128_Add(p0.hi, t01.lo, 0)             \* lo.Hi, c0
        a1 == uint128_Add(a0.sum, t23.lo, 0)            \* lo.Hi, c1
        a2 == uint128_Add(p1.lo, t01.hi, a0.carryOut)   \* hi.Lo, c0
        a3 == uint128_Add(a2.sum, t23.hi, a1.carryOut)  \* hi.Lo, c1
    IN  [hi |-> [Lo |-> a3.sum,
                 Hi |-> Uint128_Add64(p1.hi, (a2.carryOut + a3.carryOut) % Base)],
         lo |-> [Lo |-> p0.lo, Hi |-> a1.sum]]

\* func (u Uint256) Mul(v Uint256) Uint256: the product modulo 2^256
Uint256_Mul(u, v) ==
    LET p == uint128_Mul(u.Lo, v.Lo)
        h1 == Uint128_Add(p.hi, Uint128_Mul(u.Hi, v.Lo))
        h2 == Uint128_Add(h1, Uint128_Mul(u.Lo, v.Hi))
    IN  [Lo |-> p.lo, Hi |-> h2]

\* func (u Uint256) Mul128(v Uint128) Uint256
Uint256_Mul128(u, v) ==
    LET p == uint128_Mul(u.Lo, v)
    IN  [Lo |-> p.lo, Hi |-> Uint128_Add(p.hi, Uint128_Mul(u.Hi, v))]

\* func (u Uint256) Lsh(n uint) Uint256
Uint256_Lsh(u, n) ==
    IF n > 2 * W
    THEN [Lo |-> uint128_Zero, Hi |-> Uint128_Lsh(u.Lo, n - 2 * W)]
    ELSE IF n > W
    THEN LET m == n - W
         IN  [Lo |-> [Lo |-> 0, Hi |-> Shl64(u.Lo.Lo, m)],
              Hi |-> [Lo |-> Or64(Shl64(u.Lo.Hi, m), Shr64(u.Lo.Lo, W - m)),
                      Hi |-> Or64(Shl64(u.Hi.Lo, m), Shr64(u.Lo.Hi, W - m))]]
    ELSE [Lo |-> [Lo |-> Shl64(u.Lo.Lo, n),
                  Hi |-> Or64(Shl64(u.Lo.Hi, n), Shr64(u.Lo.Lo, W - n))],
          Hi |-> [Lo |-> Or64(Shl64(u.Hi.Lo, n), Shr64(u.Lo.Hi, W - n)),
                  Hi |-> Or64(Shl64(u.Hi.Hi, n), Shr64(u.Hi.Lo, W - n))]]

\* seeded fault: a shift below one word does not carry the upper half into the lower half
Uint256_Rsh_CarryLost(u, n) ==
    IF n > 2 * W
    THEN [Lo |-> Uint128_Rsh(u.Hi, n - 2 * W), Hi |-> uint128_Zero]
    ELSE IF n > W
    THEN LET m == n - W
         IN  [Lo |-> [Lo |-> Or64(Shr64(u.Lo.Hi, m), Shl64(u.Hi.Lo, W - m)),
                      Hi |-> Or64(Shr64(u.Hi.Lo, m), Shl64(u.Hi.Hi, W - m))],
              Hi |-> [Lo |-> Shr64(u.Hi.Hi, m), Hi |-> 0]]
    ELSE [Lo |-> [Lo |-> Or64(Shr64(u.Lo.Lo, n), Shl64(u.Lo.Hi, W - n)),
                  Hi |-> Shr64(u.Lo.Hi, n)],
          Hi |-> [Lo |-> Or64(Shr64(u.Hi.Lo, n), Shl64(u.Hi.Hi, W - n)),
                  Hi |-> Shr64(u.Hi.Hi, n)]]

\* func (u Uint256) Rsh(n uint) Uint256
Uint256_Rsh(u, n) ==
    IF n > 2 * W
    THEN [Lo |-> Uint128_Rsh(u.Hi, n - 2 * W), Hi |-> uint128_Zero]
    ELSE IF n > W
    THEN LET m == n - W
         IN  [Lo |-> [Lo |-> Or64(Shr64(u.Lo.Hi, m), Shl64(u.Hi.Lo, W - m)),
                      Hi |-> Or64(Shr64(u.Hi.Lo, m), Shl64(u.Hi.Hi, W - m))],
              Hi |-> [Lo |-> Shr64(u.Hi.Hi, m), Hi |-> 0]]
    ELSE [Lo |-> [Lo |-> Or64(Shr64(u.Lo.Lo, n), Shl64(u.Lo.Hi, W - n)),
                  Hi |-> Or64(Shr64(u.Lo.Hi, n), Shl64(u.Hi.Lo, W - n))],
          Hi |-> [Lo |-> Or64(Shr64(u.Hi.Lo, n), Shl64(u.Hi.Hi, W - n)),
                  Hi |-> Shr64(u.Hi.Hi, n)]]

\* func (u Uint256) Not() Uint256
Uint256_Not(u) == [Lo |-> Uint128_Not(u.Lo), Hi |-> Uint128_Not(u.Hi)]

\* func (u Uint256) BitLen() int
Uint256_BitLen(u) ==
    IF ~Uint128_IsZero(u.Hi) THEN 2 * W + Uint128_BitLen(u.Hi)
    ELSE Uint128_BitLen(u.Lo)

\* func (u Uint256) TrailingZeros() int
Uint256_TrailingZeros(u) ==
    IF ~Uint128_IsZero(u.Lo) THEN Uint128_TrailingZeros(u.Lo)
    ELSE 2 * W + Uint128_TrailingZeros(u.Hi)

\* func (u Uint256) LeadingZeros() int
Uint256_LeadingZeros(u) ==
    IF ~Uint128_IsZero(u.Hi) THEN Uint128_LeadingZeros(u.Hi)
    ELSE 2 * W + Uint128_LeadingZeros(u.Lo)

\* the four words of the result of a rotation, lowest first
Words256(w0, w1, w2, w3) == [Lo |-> [Lo |-> w0, Hi |-> w1], Hi |-> [Lo |-> w2, Hi |-> w3]]

\* func (u Uint256) RotateLeft(k int) Uint256
\*   n := uint(k) & 255 is k modulo 256; then n -= 64 up to three times
Uint256_RotateLeft(u, k) ==
    LET n  == k % (4 * W)
        n1 == n - W
        n2 == n1 - W
        n3 == n2 - W
        a  == u.Lo.Lo
        b  == u.Lo.Hi
        c  == u.Hi.Lo
        d  == u.Hi.Hi
    IN  IF n < W
        THEN IF n = 0 THEN u
             ELSE Words256(RotWord(a, d, n), RotWord(b, a, n),
                           RotWord(c, b, n), RotWord(d, c, n))
        ELSE IF n1 < W
        THEN IF n1 = 0 THEN Words256(d, a, b, c)
             ELSE Words256(RotWord(d, c, n1), RotWord(a, d, n1),
                           RotWord(b, a, n1), RotWord(c, b, n1))
        ELSE IF n2 < W
        THEN IF n2 = 0 THEN [Lo |-> u.Hi, Hi |-> u.Lo]
             ELSE Words256(RotWord(c, b, n2), RotWord(d, c, n2),
                           RotWord(a, d, n2), RotWord(b, a, n2))
        ELSE IF n3 = 0 THEN Words256(b, c, d, a)
        ELSE Words256(RotWord(b, a, n3), RotWord(c, b, n3),
                      RotWord(d, c, n3), RotWord(a, d, n3))

\* func (u Uint256) RotateRight(k int) Uint256
Uint256_RotateRight(u, k) == Uint256_RotateLeft(u, -k)

\* func (u Uint256) OnesCount() int
Uint256_OnesCount(u) == Uint128_OnesCount(u.Lo) + Uint128_OnesCount(u.Hi)

\* func (u Uint256) Reverse() Uint256
Uint256_Reverse(u) == [Lo |-> Uint128_Reverse(u.Hi), Hi |-> Uint128_Reverse(u.Lo)]

\* func (u Uint256) ReverseBytes() Uint256
Uint256_ReverseBytes(u) ==
    [Lo |-> Uint128_ReverseBytes(u.Hi), Hi |-> Uint128_ReverseBytes(u.Lo)]

\* uint256.StoreLittleEndian: b[:16] holds u.Lo, b[16:] holds u.Hi
uint256_StoreLittleEndian(u) ==
    uint128_StoreLittleEndian(u.Lo) \o uint128_StoreLittleEndian(u.Hi)

\* uint256.StoreBigEndian: b[:16] holds u.Hi, b[16:] holds u.Lo
uint256_StoreBigEndian(u) == uint128_StoreBigEndian(u.Hi) \o uint128_StoreBigEndian(u.Lo)

\* uint256.LoadLittleEndian
uint256_LoadLittleEndian(b) ==
    [Lo |-> uint128_LoadLittleEndian(SliceTo(b, 2 * WordBytes)),
     Hi |-> uint128_LoadLittleEndian(SliceFrom(b, 2 * WordBytes))]

\* uint256.LoadBigEndian
uint256_LoadBigEndian(b) ==
    [Lo |-> uint128_LoadBigEndian(SliceFrom(b, 2 * WordBytes)),
     Hi |-> uint128_LoadBigEndian(SliceTo(b, 2 * WordBytes))]

\* a division that panicked: no quotient or remainder is returned
Panic256(e) == [quo |-> uint256_Zero, rem |-> uint256_Zero, err |-> e]

\* QuoRem128, second branch, after hi, r := uint128.Div(uint128.Zero(), u.Hi, v):
\*   lo, r := uint128.Div(r, u.Lo, v); return Uint256{Lo: lo, Hi: hi}, r
Uint256_QuoRem128_Lo(dh, dl) ==
    IF dl.err # NoErr THEN [quo |-> uint256_Zero, rem |-> uint128_Zero, err |-> dl.err]
    ELSE [quo |-> [Lo |-> dl.quo, Hi |-> dh.quo], rem |-> dl.rem, err |-> NoErr]

\* seeded fault: the remainder of the upper half is not carried into the lower division
Uint256_QuoRem128_Hi_RemLost(u, v, dh) ==
    IF dh.err # NoErr THEN [quo |-> uint256_Zero, rem |-> uint128_Zero, err |-> dh.err]
    ELSE Uint256_QuoRem128_Lo(dh, uint128_Div(uint128_Zero, u.Lo, v))

\* QuoRem128, second branch: hi, r := uint128.Div(uint128.Zero(), u.Hi, v), then the lower half
Uint256_QuoRem128_Hi(u, v, dh) ==
    IF dh.err # NoErr THEN [quo |-> uint256_Zero, rem |-> uint128_Zero, err |-> dh.err]
    ELSE Uint256_QuoRem128_Lo(dh, uint128_Div(dh.rem, u.Lo, v))

\* QuoRem128, first branch: lo, r := uint128.Div(u.Hi, u.Lo, v)
Uint256_QuoRem128_Fast(d) ==
    IF d.err # NoErr THEN [quo |-> uint256_Zero, rem |-> uint128_Zero, err |-> d.err]
    ELSE [quo |-> [Lo |-> d.quo, Hi |-> uint128_Zero], rem |-> d.rem, err |-> NoErr]

\* seeded fault: the single division is also taken when u.Hi equals v
Uint256_QuoRem128_HiNotAbove(u, v) ==
    IF Uint128_Cmp(u.Hi, v) <= 0
    THEN Uint256_QuoRem128_Fast(uint128_Div(u.Hi, u.Lo, v))
    ELSE Uint256_QuoRem128_Hi(u, v, uint128_Div(uint128_Zero, u.Hi, v))

\* func (u Uint256) QuoRem128(v Uint128) (Uint256, Uint128)
Uint256_QuoRem128(u, v) ==
    IF Uint128_Cmp(u.Hi, v) < 0
    THEN Uint256_QuoRem128_Fast(uint128_Div(u.Hi, u.Lo, v))
    ELSE Uint256_QuoRem128_Hi(u, v, uint128_Div(uint128_Zero, u.Hi, v))

\* QuoRem64: q.Lo.Lo, r = bits.Div64(r, u.Lo.Lo, v); return
Uint256_QuoRem64_LoLo(d2, d1, d0) ==
    IF d0.err # NoErr THEN [quo |-> uint256_Zero, rem |-> 0, err |-> d0.err]
    ELSE [quo |-> [Lo |-> [Lo |-> d0.quo, Hi |-> d1.quo], Hi |-> d2.quo],
          rem |-> d0.rem, err |-> NoErr]

\* QuoRem64: q.Lo.Hi, r = bits.Div64(r, u.Lo.Hi, v)
Uint256_QuoRem64_LoHi(u, v, d2, d1) ==
    IF d1.err # NoErr THEN [quo |-> uint256_Zero, rem |-> 0, err |-> d1.err]
    ELSE Uint256_QuoRem64_LoLo(d2, d1, bits_Div64(d1.rem, u.Lo.Lo, v))

\* QuoRem64: q.Hi, r = u.Hi.QuoRem64(v)
Uint256_QuoRem64_Hi(u, v, d2) ==
    IF d2.err # NoErr THEN [quo |-> uint256_Zero, rem |-> 0, err |-> d2.err]
    ELSE Uint256_QuoRem64_LoHi(u, v, d2, bits_Div64(d2.rem, u.Lo.Hi, v))

\* func (u Uint256) QuoRem64(v uint64) (q Uint256, r uint64)
Uint256_QuoRem64(u, v) == Uint256_QuoRem64_Hi(u, v, Uint128_QuoRem64(u.Hi, v))

\* 78 in the source: the digits of the largest 256-bit value
BufLen256 == DigitCount(Uint256_Big(uint256_Max))

\* for i := len(buf); ; i -= 19 { q, r := u.QuoRem64(1e19); ...; u = q }
RECURSIVE Uint256_String_Loop(_, _, _)
Uint256_String_Loop(u, buf, i) ==
    LET qr == Uint256_QuoRem64(u, Chunk)
        d  == String_Digits(buf, i, qr.rem, 0)
    IN  IF qr.err # NoErr \/ d.err # NoErr
        THEN [str |-> <<>>, err |-> IF qr.err # NoErr THEN qr.err ELSE d.err]
        ELSE IF Uint256_IsZero(qr.quo) THEN String_Return(d.buf, i, d.n)
        ELSE Uint256_String_Loop(qr.quo, d.buf, i - ChunkDigits)

\* func (u Uint256) String() string
Uint256_String(u) ==
    IF Uint128_IsZero(u.Hi)
    THEN IF Uint128_IsZero(u.Lo) THEN [str |-> <<0>>, err |-> NoErr]
         ELSE Uint128_String(u.Lo)
    ELSE Uint256_String_Loop(u, [j \in 1 .. BufLen256 |-> 0], BufLen256)

\* QuoRem, general path, from q, r := From128(tq), u.Sub(v.Mul128(tq)):
\*   if r.Cmp(v) >= 0 { q = q.Add128(uint128.One()); r = r.Sub(v) }; return q, r
\* (tq and r0 record the trial quotient and the remainder before the correction)
Uint256_QuoRem_Adjust(v, q, r) ==
    IF Uint256_Cmp(r, v) >= 0
    THEN [quo |-> Uint256_Add128(q, uint128_One), rem |-> Uint256_Sub(r, v), err |-> NoErr,
          tq |-> q, r0 |-> r]
    ELSE [quo |-> q, rem |-> r, err |-> NoErr, tq |-> q, r0 |-> r]

\* QuoRem, general path, with the trial quotient tq after
\* "if !tq.IsZero() { tq = tq.Sub64(1) }"
Uint256_QuoRem_Trial(u, v, tq) ==
    Uint256_QuoRem_Adjust(v, uint256_From128(tq), Uint256_Sub(u, Uint256_Mul128(v, tq)))

\* QuoRem, general path, with t the trial quotient after tq = tq.Rsh(127 - n)
Uint256_QuoRem_Dec(u, v, t) ==
    Uint256_QuoRem_Trial(u, v, IF ~Uint128_IsZero(t) THEN Uint128_Sub64(t, 1) ELSE t)

\* QuoRem, general path, after tq, _ := uint128.Div(u1.Hi, u1.Lo, v1.Hi)
Uint256_QuoRem_Shift(u, v, n, d) ==
    IF d.err # NoErr THEN Panic256(d.err)
    ELSE Uint256_QuoRem_Dec(u, v, Uint128_Rsh(d.quo, (2 * W - 1) - n))

\* QuoRem, general path, after u1, v1 := u.Rsh(1), v.Lsh(n)
Uint256_QuoRem_Div(u, v, n, u1, v1) ==
    Uint256_QuoRem_Shift(u, v, n, uint128_Div(u1.Hi, u1.Lo, v1.Hi))

\* QuoRem, general path, after n := uint(v.Hi.LeadingZeros())
Uint256_QuoRem_Norm(u, v, n) ==
    Uint256_QuoRem_Div(u, v, n, Uint256_Rsh(u, 1), Uint256_Lsh(v, n))

\* QuoRem, fast path: q, r := u.QuoRem128(v.Lo); return q, From128(r)
Uint256_QuoRem_Fast(d) == [quo |-> d.quo, rem |-> uint256_From128(d.rem), err |-> d.err]

\* func (u Uint256) QuoRem(v Uint256) (Uint256, Uint256)
Uint256_QuoRem(u, v) ==
    IF Uint128_IsZero(v.Hi)
    THEN Uint256_QuoRem_Fast(Uint256_QuoRem128(u, v.Lo))
    ELSE Uint256_QuoRem_Norm(u, v, Uint128_LeadingZeros(v.Hi))

\* func (u Uint256) Div(v Uint256) Uint256
Uint256_Div(u, v) == Quotient(Uint256_QuoRem(u, v))

\* func (u Uint256) Div128(v Uint128) Uint256
Uint256_Div128(u, v) == Quotient(Uint256_QuoRem128(u, v))

\* func (u Uint256) Div64(v uint64) Uint256
Uint256_Div64(u, v) == Quotient(Uint256_QuoRem64(u, v))

\* func (u Uint256) Mod(v Uint256) Uint256
Uint256_Mod(u, v) == Remainder(Uint256_QuoRem(u, v))

\* func (u Uint256) Mod128(v Uint128) Uint128
Uint256_Mod128(u, v) == Remainder(Uint256_QuoRem128(u, v))

\* func (u Uint256) Mod64(v uint64) uint64
Uint256_Mod64(u, v) == Remainder(Uint256_QuoRem64(u, v))

\* seeded fault: the trial digit is corrected at most once
uint256_DivLoop_Once(q, r, y, un, n) ==
    IF ~Uint128_IsZero(q.Hi)
       \/ Uint256_Cmp(Uint256_Mul128(q, y.Lo), [Hi |-> r.Lo, Lo |-> un]) > 0
    THEN [q |-> Uint256_Sub128(q, uint128_One), r |-> Uint256_Add128(r, y.Hi), n |-> n + 1]
    ELSE [q |-> q, r |-> r, n |-> n]

\* One correction loop of Div, as in package uint128 one level up:
\*   for !q.Hi.IsZero() || q.Mul128(y.Lo).Cmp(Uint256{Hi: r.Lo, Lo: un}) > 0 {
\*       q = q.Sub128(One); r = r.Add128(y.Hi); if !r.Hi.IsZero() { break } }
RECURSIVE uint256_DivLoop(_, _, _, _, _)
uint256_DivLoop(q, r, y, un, n) ==
    IF ~Uint128_IsZero(q.Hi)
       \/ Uint256_Cmp(Uint256_Mul128(q, y.Lo), [Hi |-> r.Lo, Lo |-> un]) > 0
    THEN IF ~Uint128_IsZero(Uint256_Add128(r, y.Hi).Hi)
         THEN [q |-> Uint256_Sub128(q, uint128_One), r |-> Uint256_Add128(r, y.Hi),
               n |-> n + 1]
         ELSE uint256_DivLoop(Uint256_Sub128(q, uint128_One), Uint256_Add128(r, y.Hi),
                              y, un, n + 1)
    ELSE [q |-> q, r |-> r, n |-> n]

\* Div: the return statement, with both digits corrected (l1, l0: the loops' results)
uint256_Div_Return(y, un10, s, un21, l1, l0) ==
    [quo |-> [Hi |-> l1.q.Lo, Lo |-> l0.q.Lo],
     rem |-> Uint256_Rsh(Uint256_Sub([Hi |-> un21.Lo, Lo |-> un10.Lo],
                                     Uint256_Mul(l0.q, y)), s),
     err |-> NoErr, n1 |-> l1.n, n0 |-> l0.n, s |-> s]

\* Div: after q0, rhat := un21.QuoRem128(y.Hi), the loop for q0
uint256_Div_Q0(y, un10, s, un21, l1, d0) ==
    IF d0.err # NoErr THEN Panic256(d0.err)
    ELSE uint256_Div_Return(y, un10, s, un21, l1,
             uint256_DivLoop(d0.quo, uint256_From128(d0.rem), y, un10.Lo, 0))

\* Div: after un21 := Uint256{Hi: un32.Lo, Lo: un10.Hi}.Sub(q1.Mul(y))
uint256_Div_Un21(y, un10, s, un21, l1) ==
    uint256_Div_Q0(y, un10, s, un21, l1, Uint256_QuoRem128(un21, y.Hi))

\* Div: with q1 corrected (l1: the loop's result)
uint256_Div_Q1Done(y, un32, un10, s, l1) ==
    uint256_Div_Un21(y, un10, s,
        Uint256_Sub([Hi |-> un32.Lo, Lo |-> un10.Hi], Uint256_Mul(l1.q, y)), l1)

\* Div: after q1, rhat := un32.QuoRem128(y.Hi), the loop for q1
uint256_Div_Q1(y, un32, un10, s, d1) ==
    IF d1.err # NoErr THEN Panic256(d1.err)
    ELSE uint256_Div_Q1Done(y, un32, un10, s,
             uint256_DivLoop(d1.quo, uint256_From128(d1.rem), y, un10.Hi, 0))

\* Div: after y = y.Lsh(s), un32 := hi.Lsh(s).Or(lo.Rsh(256 - s)), un10 := lo.Lsh(s)
uint256_Div_Norm(y, un32, un10, s) ==
    uint256_Div_Q1(y, un32, un10, s, Uint256_QuoRem128(un32, y.Hi))

\* Div: after s := uint(y.LeadingZeros())
uint256_Div_Shift(hi, lo, y, s) ==
    uint256_Div_Norm(Uint256_Lsh(y, s),
                     Uint256_Or(Uint256_Lsh(hi, s), Uint256_Rsh(lo, 4 * W - s)),
                     Uint256_Lsh(lo, s), s)

\* func Div(hi, lo, y Uint256) (quo, rem Uint256)
uint256_Div(hi, lo, y) ==
    IF Uint256_IsZero(y) THEN Panic256(ErrDivideByZero)
    ELSE IF Uint256_Cmp(y, hi) <= 0 THEN Panic256(ErrOverflow)
    ELSE uint256_Div_Shift(hi, lo, y, Uint256_LeadingZeros(y))

(***************************************************************************)
(* The library is a set of pure functions of immutable values.  A run      *)
(* picks the operands, then one operation is called on them and its        *)
(* outcome is recorded:                                                    *)
(*   width    128 or 256: the type the operands belong to                  *)
(*   u, v     receiver and argument of a method (x and y of Add, Sub, Mul; *)
(*            hi and y of Div; u is the *big.Int of FromBig and FromBigX)  *)
(*   lo       lower dividend half of Div                                   *)
(*   k        shift amount of Lsh and Rsh, rotation count of RotateLeft    *)
(*            and RotateRight, carry or borrow of the free Add and Sub     *)
(*   op       the operation called, "" before the call                     *)
(*   res      what the call returned                                       *)
(* A narrower argument is taken from the low part of v, as the tests of    *)
(* the repository do (y64 := y.Lo).                                        *)
(***************************************************************************)
VARIABLES width, u, v, lo, k, op, res

vars == <<width, u, v, lo, k, op, res>>

\* words with a boundary pattern: zero, one, only the top bit, all ones
EdgeLimb == {0, 1, 2 ^ (W - 1), MaxUint64}

\* 128-bit operands built from boundary words
Edge128 == [Lo : EdgeLimb, Hi : EdgeLimb]

\* 256-bit operands built from boundary words
Edge256 == [Lo : Edge128, Hi : Edge128]

\* 128-bit boundary values: Zero, One, only the top bit, Max
Corner128 == {uint128_Zero, uint128_One, [Lo |-> 0, Hi |-> 2 ^ (W - 1)], uint128_Max}

\* 256-bit operands whose halves are boundary values
Corner256 == [Lo : Corner128, Hi : Corner128]

NoRes == [err |-> NoErr]

\* receiver and argument of a binary method, at either width
InitBinary ==
    /\ \/ width = 128 /\ u \in Uint128 /\ v \in Uint128 /\ lo = uint128_Zero
       \/ width = 256 /\ u \in Edge256 /\ v \in Edge256 /\ lo = uint256_Zero
    /\ k = 0
    /\ op = ""
    /\ res = NoRes

\* hi, lo and y of the double-width division, at either width
InitDiv ==
    /\ \/ width = 128 /\ u \in Uint128 /\ v \in Uint128 /\ lo \in Edge128
       \/ width = 256 /\ u \in Corner256 /\ v \in Edge256 /\ lo \in Corner256
    /\ k = 0
    /\ op = ""
    /\ res = NoRes

\* seeded fault: Not has a pointer receiver and complements the receiver in place
Return_InPlace(name, r) ==
    /\ op' = name
    /\ res' = r
    /\ u' = IF name = "Not" THEN r ELSE u
    /\ UNCHANGED <<width, v, lo, k>>

\* Every method has a value receiver and value parameters: the call works on copies,
\* and the caller's operands are what they were when the call returns.
Return(name, r) ==
    /\ op' = name
    /\ res' = r
    /\ UNCHANGED <<width, u, v, lo, k>>

Call_Uint128_Add == op = "" /\ width = 128 /\ Return("Add", Uint128_Add(u, v))

Call_Uint256_Add == op = "" /\ width = 256 /\ Return("Add", Uint256_Add(u, v))

Call_Uint128_Sub == op = "" /\ width = 128 /\ Return("Sub", Uint128_Sub(u, v))

Call_Uint256_Sub == op = "" /\ width = 256 /\ Return("Sub", Uint256_Sub(u, v))

Call_Uint128_Mul == op = "" /\ width = 128 /\ Return("Mul", Uint128_Mul(u, v))

Call_Uint256_Mul == op = "" /\ width = 256 /\ Return("Mul", Uint256_Mul(u, v))

Call_uint128_Mul == op = "" /\ width = 128 /\ Return("MulFull", uint128_Mul(u, v))

Call_uint256_Mul == op = "" /\ width = 256 /\ Return("MulFull", uint256_Mul(u, v))

Call_Uint128_QuoRem == op = "" /\ width = 128 /\ Return("QuoRem", Uint128_QuoRem(u, v))

Call_Uint128_QuoRem64 ==
    op = "" /\ width = 128 /\ Return("QuoRem64", Uint128_QuoRem64(u, v.Lo))

Call_Uint256_QuoRem == op = "" /\ width = 256 /\ Return("QuoRem", Uint256_QuoRem(u, v))

Call_Uint256_QuoRem128 ==
    op = "" /\ width = 256 /\ Return("QuoRem128", Uint256_QuoRem128(u, v.Lo))

Call_Uint256_QuoRem64 ==
    op = "" /\ width = 256 /\ Return("QuoRem64", Uint256_QuoRem64(u, v.Lo.Lo))

Call_uint128_Div == op = "" /\ width = 128 /\ Return("Div", uint128_Div(u, lo, v))

Call_uint256_Div == op = "" /\ width = 256 /\ Return("Div", uint256_Div(u, lo, v))

\* addition, subtraction and multiplication
NextArith ==
    \/ Call_Uint128_Add
    \/ Call_Uint256_Add
    \/ Call_Uint128_Sub
    \/ Call_Uint256_Sub
    \/ Call_Uint128_Mul
    \/ Call_Uint256_Mul
    \/ Call_uint128_Mul
    \/ Call_uint256_Mul

Spec == InitBinary /\ [][NextArith]_vars

\* the division methods
NextQuoRem ==
    \/ Call_Uint128_QuoRem
    \/ Call_Uint128_QuoRem64
    \/ Call_Uint256_QuoRem
    \/ Call_Uint256_QuoRem128
    \/ Call_Uint256_QuoRem64

SpecQuoRem == InitBinary /\ [][NextQuoRem]_vars

\* the double-width division functions
NextDiv ==
    \/ Call_uint128_Div
    \/ Call_uint256_Div

SpecDiv == InitDiv /\ [][NextDiv]_vars

\* receiver and divisor of a division method: every divisor built from
\* boundary words, zero included
InitDivisor ==
    /\ \/ width = 128 /\ u \in Uint128 /\ v \in Uint128 /\ lo = uint128_Zero
       \/ width = 256 /\ u \in Corner256 /\ v \in Edge256 /\ lo = uint256_Zero
    /\ k = 0
    /\ op = ""
    /\ res = NoRes

Call_Div ==
    op = "" /\ Return("Div", IF width = 128 THEN Uint128_Div(u, v) ELSE Uint256_Div(u, v))

Call_Div128 == op = "" /\ width = 256 /\ Return("Div128", Uint256_Div128(u, v.Lo))

Call_Div64 ==
    op = "" /\ Return("Div64", IF width = 128 THEN Uint128_Div64(u, v.Lo)
                                ELSE Uint256_Div64(u, v.Lo.Lo))

Call_Mod ==
    op = "" /\ Return("Mod", IF width = 128 THEN Uint128_Mod(u, v) ELSE Uint256_Mod(u, v))

Call_Mod128 == op = "" /\ width = 256 /\ Return("Mod128", Uint256_Mod128(u, v.Lo))

Call_Mod64 ==
    op = "" /\ Return("Mod64", IF width = 128 THEN Uint128_Mod64(u, v.Lo)
                                ELSE Uint256_Mod64(u, v.Lo.Lo))

\* every division method: QuoRem, Div, Mod and their narrow-divisor variants
NextDivMod ==
    \/ NextQuoRem
    \/ Call_Div
    \/ Call_Div128
    \/ Call_Div64
    \/ Call_Mod
    \/ Call_Mod128
    \/ Call_Mod64

SpecDivMod == InitDivisor /\ [][NextDivMod]_vars

\* shift amounts and rotation counts: negative, zero, every word boundary and
\* its neighbours, the bit width and beyond, and two very large ones
Counts == (-(4 * W + 2) .. (4 * W + 2)) \cup {-(Base ^ 4 + 1), Base ^ 4 + 1}

\* receiver and count of a shift or a rotation, at either width
InitShift ==
    /\ \/ width = 128 /\ u \in Uint128 /\ v = uint128_Zero /\ lo = uint128_Zero
       \/ width = 256 /\ u \in Uint256 /\ v = uint256_Zero /\ lo = uint256_Zero
    /\ k \in Counts
    /\ op = ""
    /\ res = NoRes

\* n is a uint: it is never negative
Call_Lsh ==
    /\ op = "" /\ k >= 0
    /\ Return("Lsh", IF width = 128 THEN Uint128_Lsh(u, k) ELSE Uint256_Lsh(u, k))

Call_Rsh ==
    /\ op = "" /\ k >= 0
    /\ Return("Rsh", IF width = 128 THEN Uint128_Rsh(u, k) ELSE Uint256_Rsh(u, k))

Call_RotateLeft ==
    op = "" /\ Return("RotateLeft", IF width = 128 THEN Uint128_RotateLeft(u, k)
                                     ELSE Uint256_RotateLeft(u, k))

Call_RotateRight ==
    op = "" /\ Return("RotateRight", IF width = 128 THEN Uint128_RotateRight(u, k)
                                      ELSE Uint256_RotateRight(u, k))

\* shifts and rotations
NextShift ==
    \/ Call_Lsh
    \/ Call_Rsh
    \/ Call_RotateLeft
    \/ Call_RotateRight

SpecShift == InitShift /\ [][NextShift]_vars

\* the receiver of a method without argument, at either width
InitUnary ==
    /\ \/ width = 128 /\ u \in Uint128 /\ v = uint128_Zero /\ lo = uint128_Zero
       \/ width = 256 /\ u \in Uint256 /\ v = uint256_Zero /\ lo = uint256_Zero
    /\ k = 0
    /\ op = ""
    /\ res = NoRes

Call_BitLen ==
    op = "" /\ Return("BitLen", IF width = 128 THEN Uint128_BitLen(u) ELSE Uint256_BitLen(u))

Call_LeadingZeros ==
    op = "" /\ Return("LeadingZeros", IF width = 128 THEN Uint128_LeadingZeros(u)
                                       ELSE Uint256_LeadingZeros(u))

Call_TrailingZeros ==
    op = "" /\ Return("TrailingZeros", IF width = 128 THEN Uint128_TrailingZeros(u)
                                        ELSE Uint256_TrailingZeros(u))

Call_OnesCount ==
    op = "" /\ Return("OnesCount", IF width = 128 THEN Uint128_OnesCount(u)
                                    ELSE Uint256_OnesCount(u))

\* bit counting
NextBits ==
    \/ Call_BitLen
    \/ Call_LeadingZeros
    \/ Call_TrailingZeros
    \/ Call_OnesCount

SpecBits == InitUnary /\ [][NextBits]_vars

Call_Cmp ==
    op = "" /\ Return("Cmp", IF width = 128 THEN Uint128_Cmp(u, v) ELSE Uint256_Cmp(u, v))

Call_Cmp64 == op = "" /\ width = 128 /\ Return("Cmp64", Uint128_Cmp64(u, v.Lo))

Call_Cmp128 == op = "" /\ width = 256 /\ Return("Cmp128", Uint256_Cmp128(u, v.Lo))

Call_Equals ==
    op = "" /\ Return("Equals", IF width = 128 THEN Uint128_Equals(u, v)
                                 ELSE Uint256_Equals(u, v))

\* comparisons
NextCmp ==
    \/ Call_Cmp
    \/ Call_Cmp64
    \/ Call_Cmp128
    \/ Call_Equals

SpecCmp == InitBinary /\ [][NextCmp]_vars

\* receiver, argument and count of any operation that is not a division
InitTotal ==
    /\ \/ width = 128 /\ u \in Uint128 /\ v \in Corner128 /\ lo = uint128_Zero
       \/ width = 256 /\ u \in Corner256 /\ v \in Corner256 /\ lo = uint256_Zero
    /\ k \in Counts
    /\ op = ""
    /\ res = NoRes

\* Add64 at 128 bits, Add128 at 256 bits: the argument has half the width
Call_AddNarrow ==
    /\ op = ""
    /\ \/ width = 128 /\ Return("Add64", Uint128_Add64(u, v.Lo))
       \/ width = 256 /\ Return("Add128", Uint256_Add128(u, v.Lo))

Call_SubNarrow ==
    /\ op = ""
    /\ \/ width = 128 /\ Return("Sub64", Uint128_Sub64(u, v.Lo))
       \/ width = 256 /\ Return("Sub128", Uint256_Sub128(u, v.Lo))

Call_MulNarrow ==
    /\ op = ""
    /\ \/ width = 128 /\ Return("Mul64", Uint128_Mul64(u, v.Lo))
       \/ width = 256 /\ Return("Mul128", Uint256_Mul128(u, v.Lo))

\* the free function Add with a carry of 0 or 1: the carry is k
Call_AddCarry ==
    /\ op = ""
    /\ k \in {0, 1}
    /\ Return("AddCarry", IF width = 128 THEN uint128_Add(u, v, k) ELSE uint256_Add(u, v, k))

\* the free function Sub with a borrow of 0 or 1: the borrow is k
Call_SubBorrow ==
    /\ op = ""
    /\ k \in {0, 1}
    /\ Return("SubBorrow", IF width = 128 THEN uint128_Sub(u, v, k) ELSE uint256_Sub(u, v, k))

\* every operation that is not a division
NextTotal ==
    \/ NextArith
    \/ Call_AddNarrow
    \/ Call_SubNarrow
    \/ Call_MulNarrow
    \/ Call_AddCarry
    \/ Call_SubBorrow
    \/ NextShift
    \/ NextBits
    \/ NextCmp

SpecTotal == InitTotal /\ [][NextTotal]_vars

\* x, y and the carry or borrow of the free functions Add and Sub
InitCarry ==
    /\ \/ width = 128 /\ u \in Uint128 /\ v \in Uint128 /\ lo = uint128_Zero
       \/ width = 256 /\ u \in Edge256 /\ v \in Edge256 /\ lo = uint256_Zero
    /\ k \in {0, 1}
    /\ op = ""
    /\ res = NoRes

\* the free functions with carry and borrow
NextCarry ==
    \/ Call_AddCarry
    \/ Call_SubBorrow

SpecCarry == InitCarry /\ [][NextCarry]_vars

\* dividend and divisor of QuoRem, with the lower dividend half of Div
InitInner ==
    /\ \/ width = 128 /\ u \in Uint128 /\ v \in Uint128 /\ lo \in {uint128_Zero, uint128_Max}
       \/ width = 256 /\ u \in Edge256 /\ v \in Edge256 /\ lo \in {uint256_Zero, uint256_Max}
    /\ k = 0
    /\ op = ""
    /\ res = NoRes

\* the divisions that call other divisions
NextInner ==
    \/ NextQuoRem
    \/ NextDiv

SpecInner == InitInner /\ [][NextInner]_vars

\* And64 at 128 bits, And128 at 256 bits
Call_AndNarrow ==
    /\ op = ""
    /\ \/ width = 128 /\ Return("And64", Uint128_And64(u, v.Lo))
       \/ width = 256 /\ Return("And128", Uint256_And128(u, v.Lo))

Call_OrNarrow ==
    /\ op = ""
    /\ \/ width = 128 /\ Return("Or64", Uint128_Or64(u, v.Lo))
       \/ width = 256 /\ Return("Or128", Uint256_Or128(u, v.Lo))

Call_XorNarrow ==
    /\ op = ""
    /\ \/ width = 128 /\ Return("Xor64", Uint128_Xor64(u, v.Lo))
       \/ width = 256 /\ Return("Xor128", Uint256_Xor128(u, v.Lo))

Call_AndNotNarrow ==
    /\ op = ""
    /\ \/ width = 128 /\ Return("AndNot64", Uint128_AndNot64(u, v.Lo))
       \/ width = 256 /\ Return("AndNot128", Uint256_AndNot128(u, v.Lo))

\* the methods whose argument has half the width of the receiver
NextNarrow ==
    \/ Call_AddNarrow
    \/ Call_SubNarrow
    \/ Call_MulNarrow
    \/ Call_AndNarrow
    \/ Call_OrNarrow
    \/ Call_XorNarrow
    \/ Call_AndNotNarrow

SpecNarrow == InitBinary /\ [][NextNarrow]_vars

\* how far the big integers reach below zero and above the largest value
BigMargin == 3

\* the *big.Int arguments: nil, and the integers around the range of the type
BigInts(bits) == {big_Nil} \cup {big_NewInt(n) : n \in -BigMargin .. (2 ^ bits + BigMargin)}

\* u is the *big.Int argument of FromBig and FromBigX, v the receiver of Big
InitBig ==
    /\ \/ width = 128 /\ u \in BigInts(2 * W) /\ v \in Uint128 /\ lo = uint128_Zero
       \/ width = 256 /\ u \in BigInts(4 * W) /\ v \in Edge256 /\ lo = uint256_Zero
    /\ k = 0
    /\ op = ""
    /\ res = NoRes

Call_FromBigX ==
    op = "" /\ Return("FromBigX", IF width = 128 THEN uint128_FromBigX(u)
                                   ELSE uint256_FromBigX(u))

Call_FromBig ==
    op = "" /\ Return("FromBig", IF width = 128 THEN uint128_FromBig(u)
                                  ELSE uint256_FromBig(u))

\* FromBig(v.Big())
Call_FromBig_Big ==
    op = "" /\ Return("FromBig(Big)",
                       IF width = 128 THEN uint128_FromBig(big_NewInt(Uint128_Big(v)))
                       ELSE uint256_FromBig(big_NewInt(Uint256_Big(v))))

\* conversions from and to math/big
NextBig ==
    \/ Call_FromBigX
    \/ Call_FromBig
    \/ Call_FromBig_Big

SpecBig == InitBig /\ [][NextBig]_vars

\* the store functions fill a buffer, which becomes the result
Call_StoreLittleEndian ==
    op = "" /\ Return("StoreLittleEndian", IF width = 128 THEN uint128_StoreLittleEndian(u)
                                            ELSE uint256_StoreLittleEndian(u))

Call_StoreBigEndian ==
    op = "" /\ Return("StoreBigEndian", IF width = 128 THEN uint128_StoreBigEndian(u)
                                         ELSE uint256_StoreBigEndian(u))

\* the load functions read the buffer that a store function has filled
Call_LoadLittleEndian ==
    /\ op \in {"StoreLittleEndian", "StoreBigEndian"}
    /\ Return(op \o ";LoadLittleEndian", IF width = 128 THEN uint128_LoadLittleEndian(res)
                                          ELSE uint256_LoadLittleEndian(res))

Call_LoadBigEndian ==
    /\ op \in {"StoreLittleEndian", "StoreBigEndian"}
    /\ Return(op \o ";LoadBigEndian", IF width = 128 THEN uint128_LoadBigEndian(res)
                                       ELSE uint256_LoadBigEndian(res))

Call_Reverse ==
    op = "" /\ Return("Reverse", IF width = 128 THEN Uint128_Reverse(u) ELSE Uint256_Reverse(u))

Call_ReverseBytes ==
    op = "" /\ Return("ReverseBytes", IF width = 128 THEN Uint128_ReverseBytes(u)
                                       ELSE Uint256_ReverseBytes(u))

Call_String ==
    op = "" /\ Return("String", IF width = 128 THEN Uint128_String(u) ELSE Uint256_String(u))

\* byte-order serialization, the reversals and the text form
NextBytes ==
    \/ Call_String
    \/ Call_StoreLittleEndian
    \/ Call_StoreBigEndian
    \/ Call_LoadLittleEndian
    \/ Call_LoadBigEndian
    \/ Call_Reverse
    \/ Call_ReverseBytes

SpecBytes == InitUnary /\ [][NextBytes]_vars

Call_And ==
    op = "" /\ Return("And", IF width = 128 THEN Uint128_And(u, v) ELSE Uint256_And(u, v))

Call_Or ==
    op = "" /\ Return("Or", IF width = 128 THEN Uint128_Or(u, v) ELSE Uint256_Or(u, v))

Call_Xor ==
    op = "" /\ Return("Xor", IF width = 128 THEN Uint128_Xor(u, v) ELSE Uint256_Xor(u, v))

Call_AndNot ==
    op = "" /\ Return("AndNot", IF width = 128 THEN Uint128_AndNot(u, v)
                                 ELSE Uint256_AndNot(u, v))

Call_Not ==
    op = "" /\ Return("Not", IF width = 128 THEN Uint128_Not(u) ELSE Uint256_Not(u))

Call_Zero == op = "" /\ Return("Zero", IF width = 128 THEN uint128_Zero ELSE uint256_Zero)

Call_One == op = "" /\ Return("One", IF width = 128 THEN uint128_One ELSE uint256_One)

Call_Max == op = "" /\ Return("Max", IF width = 128 THEN uint128_Max ELSE uint256_Max)

\* the operations that panic on a bad divisor
DivisionOps ==
    {"QuoRem", "QuoRem64", "QuoRem128", "Div", "Div64", "Div128", "Mod", "Mod64", "Mod128"}

\* the caller drops the result of a call that returned, and goes on to the next call
\* with the same operands
Discard ==
    /\ op # ""
    /\ op \in DivisionOps => res.err = NoErr
    /\ op' = ""
    /\ res' = NoRes
    /\ UNCHANGED <<width, u, v, lo, k>>

\* any sequence of operations on the same operands
NextSeq ==
    \/ NextTotal
    \/ NextDivMod
    \/ Call_And
    \/ Call_Or
    \/ Call_Xor
    \/ Call_AndNot
    \/ Call_Not
    \/ Call_AndNarrow
    \/ Call_OrNarrow
    \/ Call_XorNarrow
    \/ Call_AndNotNarrow
    \/ Call_Zero
    \/ Call_One
    \/ Call_Max
    \/ Discard

SpecSeq == InitTotal /\ [][NextSeq]_vars

\* the unbounded integer an operand stands for, and the modulus of its type
Big(x) == IF width = 128 THEN Uint128_Big(x) ELSE Uint256_Big(x)

Modulus == IF width = 128 THEN 2 ^ (2 * W) ELSE 2 ^ (4 * W)

Zero == IF width = 128 THEN uint128_Zero ELSE uint256_Zero

One == IF width = 128 THEN uint128_One ELSE uint256_One

Max == IF width = 128 THEN uint128_Max ELSE uint256_Max

\* the bit width N of the operands' type
Bits == IF width = 128 THEN 2 * W ELSE 4 * W

\* the values of the operands' type
Type == IF width = 128 THEN Uint128 ELSE Uint256

(***************************************************************************)
(* Properties                                                              *)
(***************************************************************************)

\* C1: u.Add(v) represents (u + v) mod 2^N at both widths: the carry out of
\* the lower half goes into the upper half and the final carry is dropped;
\* Max().Add(One()) == Zero().
C1_AddWraps ==
    op = "Add" =>
        /\ res \in Type
        /\ Big(res) = (Big(u) + Big(v)) % Modulus
        /\ (u = Max /\ v = One => res = Zero)

\* a 256-bit addition whose carry runs through every word and out of the top
C1_Witness == op = "Add" /\ width = 256 /\ u = Max /\ v = One /\ res = Zero

\* C2: u.Sub(v) represents (u - v) mod 2^N at both widths: the borrow out of
\* the lower half goes into the upper half and the final borrow is dropped;
\* Zero().Sub(One()) == Max().
C2_SubWraps ==
    op = "Sub" =>
        /\ res \in Type
        /\ Big(res) = (Big(u) - Big(v)) % Modulus
        /\ (u = Zero /\ v = One => res = Max)

\* a 256-bit subtraction whose borrow runs through every word and out of the top
C2_Witness == op = "Sub" /\ width = 256 /\ u = Zero /\ v = One /\ res = Max

\* C3: the method u.Mul(v) represents (u * v) mod 2^N at both widths, which
\* is the lower half of the full product; Max().Mul(Max()) == One().
C3_MulWraps ==
    op = "Mul" =>
        /\ res \in Type
        /\ Big(res) = (Big(u) * Big(v)) % Modulus
        /\ res = (IF width = 128 THEN uint128_Mul(u, v).lo ELSE uint256_Mul(u, v).lo)
        /\ (u = Max /\ v = Max => res = One)

\* the product of the two largest 256-bit values, truncated
C3_Witness == op = "Mul" /\ width = 256 /\ u = Max /\ v = Max /\ res = One

\* C4: the free function Mul(x, y) returns (hi, lo) with
\* hi * 2^N + lo = x * y exactly, at both widths.
C4_MulFullExact ==
    op = "MulFull" =>
        /\ res.hi \in Type
        /\ res.lo \in Type
        /\ Big(res.hi) * Modulus + Big(res.lo) = Big(u) * Big(v)

\* a full 256-bit product whose upper half is as large as it can be
C4_Witness ==
    op = "MulFull" /\ width = 256 /\ u = Max /\ v = Max
        /\ res.lo = One /\ Big(res.hi) = Modulus - 2

\* C5: for a nonzero divisor, Uint128.QuoRem and Uint128.QuoRem64 return
\* (q, r) with u = q * v + r and r < v, on the fast and on the general path.
C5_QuoRem128 ==
    /\ (width = 128 /\ op = "QuoRem" /\ ~Uint128_IsZero(v)) =>
           /\ res.err = NoErr
           /\ res.quo \in Uint128
           /\ res.rem \in Uint128
           /\ Big(u) = Big(res.quo) * Big(v) + Big(res.rem)
           /\ Big(res.rem) < Big(v)
    /\ (width = 128 /\ op = "QuoRem64" /\ v.Lo # 0) =>
           /\ res.err = NoErr
           /\ res.quo \in Uint128
           /\ res.rem \in Limb
           /\ Big(u) = Big(res.quo) * v.Lo + res.rem
           /\ res.rem < v.Lo

\* the general path (divisor upper half nonzero) with a quotient above one:
\* the decremented trial quotient was nonzero and was corrected
C5_Witness ==
    /\ width = 128 /\ op = "QuoRem" /\ v.Hi # 0
    /\ res.err = NoErr /\ Big(res.quo) = 2 /\ res.rem # uint128_Zero

\* C6: for a nonzero divisor, Uint256.QuoRem, QuoRem128 and QuoRem64 return
\* (q, r) with u = q * v + r and r < v, on the fast and on the general path.
C6_QuoRem256 ==
    /\ (width = 256 /\ op = "QuoRem" /\ ~Uint256_IsZero(v)) =>
           /\ res.err = NoErr
           /\ res.quo \in Uint256
           /\ res.rem \in Uint256
           /\ Big(u) = Big(res.quo) * Big(v) + Big(res.rem)
           /\ Big(res.rem) < Big(v)
    /\ (width = 256 /\ op = "QuoRem128" /\ ~Uint128_IsZero(v.Lo)) =>
           /\ res.err = NoErr
           /\ res.quo \in Uint256
           /\ res.rem \in Uint128
           /\ Big(u) = Big(res.quo) * Uint128_Big(v.Lo) + Uint128_Big(res.rem)
           /\ Uint128_Big(res.rem) < Uint128_Big(v.Lo)
    /\ (width = 256 /\ op = "QuoRem64" /\ v.Lo.Lo # 0) =>
           /\ res.err = NoErr
           /\ res.quo \in Uint256
           /\ res.rem \in Limb
           /\ Big(u) = Big(res.quo) * v.Lo.Lo + res.rem
           /\ res.rem < v.Lo.Lo

\* the general path (divisor upper half nonzero) with a quotient above one
C6_Witness ==
    /\ width = 256 /\ op = "QuoRem" /\ ~Uint128_IsZero(v.Hi)
    /\ res.err = NoErr /\ Big(res.quo) > 2 /\ res.rem # uint256_Zero

\* C7: for y # 0 and hi < y, uint128.Div(hi, lo, y) returns (quo, rem) with
\* quo * y + rem = hi * 2^128 + lo and rem < y, whatever the shift s.
C7_Div128 ==
    (width = 128 /\ op = "Div" /\ ~Uint128_IsZero(v) /\ Big(u) < Big(v)) =>
        /\ res.err = NoErr
        /\ res.quo \in Uint128
        /\ res.rem \in Uint128
        /\ Big(res.quo) * Big(v) + Big(res.rem) = Big(u) * Modulus + Big(lo)
        /\ Big(res.rem) < Big(v)

\* a division with no normalization shift in which a digit is corrected twice
C7_Witness ==
    /\ width = 128 /\ op = "Div" /\ res.err = NoErr
    /\ res.s = 0 /\ res.n0 = 2 /\ u # uint128_Zero

\* C8: for y # 0 and hi < y, uint256.Div(hi, lo, y) returns (quo, rem) with
\* quo * y + rem = hi * 2^256 + lo and rem < y, whatever the shift s.
C8_Div256 ==
    (width = 256 /\ op = "Div" /\ ~Uint256_IsZero(v) /\ Big(u) < Big(v)) =>
        /\ res.err = NoErr
        /\ res.quo \in Uint256
        /\ res.rem \in Uint256
        /\ Big(res.quo) * Big(v) + Big(res.rem) = Big(u) * Modulus + Big(lo)
        /\ Big(res.rem) < Big(v)

\* a division with no normalization shift in which both digits are corrected twice
C8_Witness ==
    /\ width = 256 /\ op = "Div" /\ res.err = NoErr
    /\ res.s = 0 /\ res.n1 = 2 /\ res.n0 = 2

\* C9, as claimed: Div(hi, lo, y) fails with Overflow whenever y <= hi, for every lo.
C9_OverflowWheneverNotAbove ==
    (op = "Div" /\ Big(v) <= Big(u)) => res.err = ErrOverflow

\* C9, amended: Div(hi, lo, y) fails with Overflow whenever y is not zero
\* and y <= hi, for every lo; Div(Max, Max, One) fails with Overflow.
C9_OverflowNonzeroDivisor ==
    (op = "Div" /\ Big(v) # 0 /\ Big(v) <= Big(u)) => res.err = ErrOverflow

\* Div(Max, Max, One) at 128 bits
C9_Witness ==
    /\ width = 128 /\ op = "Div" /\ u = uint128_Max /\ lo = uint128_Max
    /\ v = uint128_One /\ res.err = ErrOverflow

\* C10: Div(hi, lo, y) fails with "integer divide by zero" whenever y is
\* zero, for every hi and lo, and that failure is not the Overflow failure.
C10_DivideByZero ==
    (op = "Div" /\ v = Zero) =>
        /\ res.err = ErrDivideByZero
        /\ res.err # ErrOverflow
        /\ ErrDivideByZero = "integer divide by zero"

\* Div(One, One, Zero) at 128 bits
C10_Witness ==
    /\ width = 128 /\ op = "Div" /\ u = uint128_One /\ lo = uint128_One
    /\ v = uint128_Zero /\ res.err = ErrDivideByZero

C12_NoMethodPanics == op # "" => res.err = NoErr


\* C13: at both widths Add, Sub and Mul (the methods, their narrow-argument
\* variants and the free functions), Lsh, Rsh, RotateLeft, RotateRight, the
\* bit-counting operations and the comparisons never fail: they return a value
\* of their result type for every receiver and argument, also for a shift
\* amount of the bit width or more and for a negative or very large rotation
\* count.
C13_NeverFails ==
    /\ op \in {"Add", "Sub", "Mul", "Add64", "Add128", "Sub64", "Sub128", "Mul64", "Mul128",
                "Lsh", "Rsh", "RotateLeft", "RotateRight"} => res \in Type
    /\ op = "MulFull" => res.hi \in Type /\ res.lo \in Type
    /\ op = "AddCarry" => res.sum \in Type /\ res.carryOut \in {0, 1}
    /\ op = "SubBorrow" => res.diff \in Type /\ res.borrowOut \in {0, 1}
    /\ op \in {"BitLen", "LeadingZeros", "TrailingZeros", "OnesCount"} => res \in 0 .. Bits
    /\ op \in {"Cmp", "Cmp64", "Cmp128"} => res \in {-1, 0, 1}
    /\ op = "Equals" => res \in BOOLEAN

\* a rotation by a very large negative count returns a value
C13_Witness ==
    /\ width = 256 /\ op = "RotateRight" /\ k = -(Base ^ 4 + 1) /\ u = uint256_One
    /\ res = [Lo |-> [Lo |-> 2, Hi |-> 0], Hi |-> uint128_Zero]

\* C14: for every N-bit u and every shift amount n >= 0, u.Lsh(n) represents
\* (u * 2^n) mod 2^N: at n = 0, at every word boundary and next to it, and for
\* n >= N, where the result is Zero; Uint128{Lo: all ones, Hi: 0}.Lsh(64) is
\* Uint128{Lo: 0, Hi: all ones}.
C14_LshShifts ==
    op = "Lsh" =>
        /\ res \in Type
        /\ IF k >= Bits THEN res = Zero
           ELSE Big(res) = (Big(u) * 2 ^ k) % Modulus

\* the lower word, all ones, moves into the upper word
C14_Witness ==
    /\ width = 128 /\ op = "Lsh" /\ k = W
    /\ u = [Lo |-> MaxUint64, Hi |-> 0] /\ res = [Lo |-> 0, Hi |-> MaxUint64]

\* C15: for every N-bit u and every shift amount n >= 0, u.Rsh(n) represents
\* floor(u / 2^n): at n = 0, at every word boundary and next to it, and for
\* n >= N, where the result is Zero.
C15_RshShifts ==
    op = "Rsh" =>
        /\ res \in Type
        /\ IF k >= Bits THEN res = Zero
           ELSE Big(res) = Big(u) \div 2 ^ k

\* a 256-bit shift by one bit above a word boundary that carries bits between words
C15_Witness ==
    /\ width = 256 /\ op = "Rsh" /\ k = W + 1 /\ u = uint256_Max
    /\ res = [Lo |-> uint128_Max, Hi |-> [Lo |-> Shr64(MaxUint64, 1), Hi |-> 0]]

C18_BitCountsAddUp ==
    LET LeadingZeros(x) == IF width = 128 THEN Uint128_LeadingZeros(x)
                           ELSE Uint256_LeadingZeros(x)
        BitLen(x)       == IF width = 128 THEN Uint128_BitLen(x) ELSE Uint256_BitLen(x)
        OnesCount(x)    == IF width = 128 THEN Uint128_OnesCount(x) ELSE Uint256_OnesCount(x)
        Not(x)          == IF width = 128 THEN Uint128_Not(x) ELSE Uint256_Not(x)
    IN  /\ op = "BitLen" /\ u # Zero => LeadingZeros(u) + res = Bits
        /\ op = "BitLen" /\ u = Zero => res = 0
        /\ op = "LeadingZeros" /\ u # Zero => res + BitLen(u) = Bits
        /\ op = "OnesCount" => res + OnesCount(Not(u)) = Bits

\* a value with a zero upper half: its leading zeros span the whole upper half
C18_Witness ==
    /\ width = 256 /\ op = "LeadingZeros" /\ u = uint256_One /\ res = 4 * W - 1

\* C19: for every N-bit x, BitLen(x) is the index of the highest set bit plus
\* one (0 for zero), LeadingZeros(x) is the number of zero bits above the
\* highest set bit (N for zero), TrailingZeros(x) is the index of the lowest
\* set bit (N for zero) and OnesCount(x) is the number of set bits, whichever
\* halves are zero.
C19_BitCounts ==
    LET x      == Big(u)
        Bit(i) == (x \div 2 ^ i) % 2
        Set    == {i \in 0 .. Bits - 1 : Bit(i) = 1}
        High   == CHOOSE i \in Set : \A j \in Set : j <= i
        Low    == CHOOSE i \in Set : \A j \in Set : i <= j
    IN  /\ op = "BitLen" => res = (IF Set = {} THEN 0 ELSE High + 1)
        /\ op = "LeadingZeros" => res = (IF Set = {} THEN Bits ELSE Bits - 1 - High)
        /\ op = "TrailingZeros" => res = (IF Set = {} THEN Bits ELSE Low)
        /\ op = "OnesCount" => res = Cardinality(Set)

\* the only set bit is the lowest bit of the upper half
C19_Witness ==
    /\ width = 256 /\ op = "TrailingZeros" /\ u = [Lo |-> uint128_Zero, Hi |-> uint128_One]
    /\ res = 2 * W


\* C20: at both widths u.Cmp(v) is -1, 0 or +1 exactly when the value of u is
\* less than, equal to or greater than the value of v; Cmp(u, v) == -Cmp(v, u);
\* Cmp(u, v) == 0 iff u.Equals(v) iff both halves are equal; Cmp64 and Cmp128
\* against a narrower v give what Cmp gives against the widened v, so a nonzero
\* upper half of u gives +1.
C20_CmpTotalOrder ==
    LET Sign(d)      == IF d < 0 THEN -1 ELSE IF d > 0 THEN 1 ELSE 0
        Cmp(x, y)    == IF width = 128 THEN Uint128_Cmp(x, y) ELSE Uint256_Cmp(x, y)
        Equals(x, y) == IF width = 128 THEN Uint128_Equals(x, y) ELSE Uint256_Equals(x, y)
        narrow       == IF width = 128 THEN uint128_From64(v.Lo) ELSE uint256_From128(v.Lo)
        upperZero    == IF width = 128 THEN u.Hi = 0 ELSE u.Hi = uint128_Zero
    IN  /\ op = "Cmp" =>
            /\ res = Sign(Big(u) - Big(v))
            /\ res = -Cmp(v, u)
            /\ (res = 0) = Equals(u, v)
            /\ (res = 0) = (u.Lo = v.Lo /\ u.Hi = v.Hi)
        /\ op \in {"Cmp64", "Cmp128"} =>
            /\ res = Cmp(u, narrow)
            /\ res = Sign(Big(u) - Big(narrow))
            /\ ~upperZero => res = 1
        /\ op = "Equals" => res = (Big(u) = Big(v))

\* the upper halves decide although the lower halves are ordered the other way
C20_Witness ==
    /\ width = 128 /\ op = "Cmp" /\ res = -1
    /\ u = [Lo |-> MaxUint64, Hi |-> 0] /\ v = [Lo |-> 0, Hi |-> 1]

\* C21: every method that takes an argument of half the width returns what the
\* full-width method returns on the widened argument: Add64, Sub64, Mul64, And64,
\* Or64, Xor64 and AndNot64 against From64(v), and the 128 variants of Uint256
\* against From128(v); Max().Mul64(2) is Max().Sub64(1).
C21_NarrowIsWideOnWidened ==
    /\ op = "Add64" => res = Uint128_Add(u, uint128_From64(v.Lo))
    /\ op = "Sub64" => res = Uint128_Sub(u, uint128_From64(v.Lo))
    /\ op = "Mul64" => res = Uint128_Mul(u, uint128_From64(v.Lo))
    /\ op = "And64" => res = Uint128_And(u, uint128_From64(v.Lo))
    /\ op = "Or64" => res = Uint128_Or(u, uint128_From64(v.Lo))
    /\ op = "Xor64" => res = Uint128_Xor(u, uint128_From64(v.Lo))
    /\ op = "AndNot64" => res = Uint128_AndNot(u, uint128_From64(v.Lo))
    /\ op = "Add128" => res = Uint256_Add(u, uint256_From128(v.Lo))
    /\ op = "Sub128" => res = Uint256_Sub(u, uint256_From128(v.Lo))
    /\ op = "Mul128" => res = Uint256_Mul(u, uint256_From128(v.Lo))
    /\ op = "And128" => res = Uint256_And(u, uint256_From128(v.Lo))
    /\ op = "Or128" => res = Uint256_Or(u, uint256_From128(v.Lo))
    /\ op = "Xor128" => res = Uint256_Xor(u, uint256_From128(v.Lo))
    /\ op = "AndNot128" => res = Uint256_AndNot(u, uint256_From128(v.Lo))
    /\ op = "Mul64" /\ u = uint128_Max /\ v.Lo = 2 => res = Uint128_Sub64(uint128_Max, 1)
    /\ op = "Mul128" /\ u = uint256_Max /\ v.Lo = uint128_From64(2)
           => res = Uint256_Sub128(uint256_Max, uint128_One)

\* And64 of a receiver with a nonzero upper half and an all-ones argument
C21_Witness ==
    /\ op = "And64"
    /\ u.Hi = MaxUint64
    /\ u.Lo = 1
    /\ v.Lo = MaxUint64
    /\ res = uint128_One

\* C22: FromBigX gives (Zero, true) for nil, (Zero, false) for a negative integer,
\* (Max, false) for an integer of 2^N or more, and (the value, true) for an integer
\* from 0 to 2^N - 1; FromBig gives the same value without the flag; FromBig(x.Big())
\* is x.
C22_FromBigClamps ==
    /\ op = "FromBigX" /\ u.nil => res = [val |-> Zero, ok |-> TRUE]
    /\ op = "FromBigX" /\ ~u.nil /\ u.val < 0 => res = [val |-> Zero, ok |-> FALSE]
    /\ op = "FromBigX" /\ ~u.nil /\ u.val >= Modulus => res = [val |-> Max, ok |-> FALSE]
    /\ op = "FromBigX" /\ ~u.nil /\ u.val >= 0 /\ u.val < Modulus
           => res.ok /\ res.val \in Type /\ Big(res.val) = u.val
    /\ op = "FromBig" /\ (u.nil \/ u.val < 0) => res = Zero
    /\ op = "FromBig" /\ ~u.nil /\ u.val >= Modulus => res = Max
    /\ op = "FromBig" /\ ~u.nil /\ u.val >= 0 /\ u.val < Modulus
           => res \in Type /\ Big(res) = u.val
    /\ op = "FromBig(Big)" => res = v

\* FromBigX of exactly 2^N at 256 bits
C22_Witness ==
    /\ op = "FromBigX"
    /\ width = 256
    /\ u = big_NewInt(2 ^ (4 * W))
    /\ res = [val |-> uint256_Max, ok |-> FALSE]

RECURSIVE DigitsValue(_)
DigitsValue(s) ==
    IF s = <<>> THEN 0 ELSE (DigitsValue(SubSeq(s, 1, Len(s) - 1)) * Radix) + s[Len(s)]

C25_CarryChain ==
    /\ op = "AddCarry" =>
           /\ res.sum \in Type
           /\ res.carryOut \in {0, 1}
           /\ Big(res.sum) + res.carryOut * Modulus = Big(u) + Big(v) + k
    /\ op = "SubBorrow" =>
           /\ res.diff \in Type
           /\ res.borrowOut \in {0, 1}
           /\ Big(res.diff) - res.borrowOut * Modulus = Big(u) - Big(v) - k

\* the carry alone takes the largest 256-bit value over the top
C25_Witness ==
    /\ op = "AddCarry"
    /\ width = 256
    /\ u = uint256_Max
    /\ v = uint256_Zero
    /\ k = 1
    /\ res = [sum |-> uint256_Zero, carryOut |-> 1]

C28_TrialQuotientWithinOne ==
    op = "QuoRem" /\ (IF width = 128 THEN v.Hi # 0 ELSE ~Uint128_IsZero(v.Hi)) =>
        /\ res.err = NoErr
        /\ Big(u) \div Big(v) \in {Big(res.tq), Big(res.tq) + 1}
        /\ Big(u) - Big(v) * Big(res.tq) \in 0 .. 2 * Big(v) - 1
        /\ Big(res.r0) = Big(u) - Big(v) * Big(res.tq)
        /\ Big(res.quo) = Big(u) \div Big(v)
        /\ Big(res.rem) = Big(u) % Big(v)
        /\ Big(res.rem) < Big(v)

\* a 256-bit division whose nonzero trial quotient is one less than the quotient
C28_Witness ==
    /\ op = "QuoRem"
    /\ width = 256
    /\ u = uint256_Max
    /\ ~Uint128_IsZero(v.Hi)
    /\ res.err = NoErr
    /\ Big(res.tq) # 0
    /\ Big(res.quo) = Big(res.tq) + 1

\* C29: in the double-width Div, at both widths and for every input with y # 0 and
\* hi < y, the correction loop for q1 and the correction loop for q0 each run
\* their body at most twice, and Div returns.
C29_LoopsAtMostTwice ==
    op = "Div" /\ v # Zero /\ Big(u) < Big(v) =>
        /\ res.err = NoErr
        /\ res.n1 \in 0 .. 2
        /\ res.n0 \in 0 .. 2

\* a 256-bit division with a shifted divisor whose first loop runs twice
C29_Witness ==
    /\ op = "Div"
    /\ width = 256
    /\ res.err = NoErr
    /\ res.s > 0
    /\ res.n1 = 2
    /\ res.n0 = 1

\* C30: for every 256-bit dividend and every nonzero divisor, Uint256.QuoRem and
\* Uint256.QuoRem128 do not panic: every call of uint128.Div inside them is made
\* with a nonzero divisor above the upper dividend half; and for y # 0 and hi < y
\* the QuoRem64 calls inside uint128.Div and the QuoRem128 calls inside uint256.Div
\* are made with a nonzero divisor, so Div does not panic either.
C30_InnerDivisionsSafe ==
    /\ width = 256 /\ op = "QuoRem" /\ v # uint256_Zero => res.err = NoErr
    /\ width = 256 /\ op = "QuoRem128" /\ v.Lo # uint128_Zero => res.err = NoErr
    /\ op = "Div" /\ v # Zero /\ Big(u) < Big(v) => res.err = NoErr

\* QuoRem128 of the largest value by the largest 128-bit value: two inner divisions
C30_Witness ==
    /\ op = "QuoRem128"
    /\ width = 256
    /\ u = uint256_Max
    /\ v.Lo = uint128_Max
    /\ res = [quo |-> [Lo |-> uint128_One, Hi |-> uint128_One], rem |-> uint128_Zero,
              err |-> NoErr]

=============================================================================
